---- MODULE Spec2Model ----
(***************************************************************************)
(* Model of the work-item scheduling and reconciliation engine of          *)
(* Context-Engine (src/loop-runner.py, src/orchestrator.py).               *)
(*                                                                         *)
(* An id is a sequence of one-character strings, so that prefix and        *)
(* substring relations between ids are what they are in the program.       *)
(* A feature is a record; a field that is absent from the JSON object is   *)
(* represented by the value .get() substitutes for it, except priority,    *)
(* whose absence and type matter to sorted().                              *)
(***************************************************************************)
EXTENDS Integers, Sequences, FiniteSets, TLC

\* ------------------------------------------------------------------------
\* Bounds and data universe
\* ------------------------------------------------------------------------

\* longest dependencies list of an item in an enumerated collection
MaxDeps == 2

\* most commits the history of an enumerated run holds
MaxLedger == 2

\* the ids items are drawn from: "f1" is a proper prefix of "f10", and
\* "qa-2" starts with the review-gate prefix
IdList == << <<"f", "1">>, <<"f", "1", "0">>, <<"q", "a", "-", "2">> >>

Ids == {IdList[i] : i \in 1..Len(IdList)}

\* JSON values of "priority": a number, a string, or no key at all
PInt(n) == [kind |-> "int", val |-> n]

PStr == [kind |-> "str", val |-> 0]

PAbsent == [kind |-> "absent", val |-> 0]

Priorities == {PInt(1), PInt(2), PAbsent, PStr}

Categories == {"api", "qa", "QA"}

\* Python's None as a feature-typed value (what get_next_feature returns
\* when nothing is eligible)
None == [id |-> <<>>, priority |-> PAbsent, category |-> "", passes |-> FALSE,
         blocked |-> FALSE, needs_review |-> FALSE, dependencies |-> <<>>]

\* ------------------------------------------------------------------------
\* Sequence helpers
\* ------------------------------------------------------------------------

Range(s) == {s[i] : i \in 1..Len(s)}

\* list.index(x): position of the first occurrence
Index(s, x) == CHOOSE i \in 1..Len(s) : s[i] = x /\ \A j \in 1..(i - 1) : s[j] # x

\* sequences over S of length at most n without repeated elements
DistinctSeqs(S, n) ==
    {s \in UNION {[1..k -> S] : k \in 0..n} :
        \A i, j \in 1..Len(s) : i # j => s[i] # s[j]}

\* ------------------------------------------------------------------------
\* Dependency graph: cycle detection (loop-runner.py, lines 107-147)
\* ------------------------------------------------------------------------

\* dict keys in insertion order: the ids of the collection, first occurrences
RECURSIVE KeyOrder(_)
KeyOrder(features) ==
    IF features = <<>> THEN <<>>
    ELSE LET front == KeyOrder(SubSeq(features, 1, Len(features) - 1))
             k == features[Len(features)].id
         IN  IF k \in Range(front) THEN front ELSE Append(front, k)

\* graph[feat_id] = feat.get('dependencies', []): a later item with the same
\* id overwrites an earlier one; graph.get(node, []) for an unknown node
graph_get(features, node) ==
    LET hits == {i \in 1..Len(features) : features[i].id = node}
    IN  IF hits = {} THEN <<>>
        ELSE features[CHOOSE i \in hits : \A j \in hits : j <= i].dependencies

\* dfs(node) and its loop over the neighbours from position i on.  st holds
\* visited, rec_stack and path; cycle is the returned list (<<>> for None).
RECURSIVE dfs(_, _, _)
RECURSIVE dfs_neighbors(_, _, _, _)
dfs(features, node, st) ==
    LET entered == [visited |-> st.visited \cup {node},
                    rec_stack |-> st.rec_stack \cup {node},
                    path |-> Append(st.path, node),
                    cycle |-> <<>>]
        r == dfs_neighbors(features, graph_get(features, node), 1, entered)
    IN  IF r.cycle # <<>> THEN r
        ELSE [r EXCEPT !.path = SubSeq(r.path, 1, Len(r.path) - 1),
                       !.rec_stack = r.rec_stack \ {node}]

\* a traversal that reports the whole path it has walked
RECURSIVE dfs_reporting_whole_path(_, _, _, _)
dfs_reporting_whole_path(features, nbrs, i, st) ==
    IF i > Len(nbrs) THEN st
    ELSE LET neighbor == nbrs[i]
         IN  IF neighbor \notin st.visited
             THEN LET r == dfs(features, neighbor, st)
                  IN  IF r.cycle # <<>> THEN r
                      ELSE dfs_reporting_whole_path(features, nbrs, i + 1, r)
             ELSE IF neighbor \in st.rec_stack
             THEN [st EXCEPT !.cycle = st.path \o <<neighbor>>]
             ELSE dfs_reporting_whole_path(features, nbrs, i + 1, st)

dfs_neighbors(features, nbrs, i, st) ==
    IF i > Len(nbrs) THEN st
    ELSE LET neighbor == nbrs[i]
         IN  IF neighbor \notin st.visited
             THEN LET r == dfs(features, neighbor, st)
                  IN  IF r.cycle # <<>> THEN r
                      ELSE dfs_neighbors(features, nbrs, i + 1, r)
             ELSE IF neighbor \in st.rec_stack
             THEN [st EXCEPT !.cycle =
                      SubSeq(st.path, Index(st.path, neighbor), Len(st.path))
                          \o <<neighbor>>]
             ELSE dfs_neighbors(features, nbrs, i + 1, st)

\* for node in graph: if node not in visited: cycle = dfs(node) ...
RECURSIVE detect_loop(_, _, _, _)
detect_loop(features, nodes, i, st) ==
    IF i > Len(nodes) THEN <<>>
    ELSE IF nodes[i] \in st.visited THEN detect_loop(features, nodes, i + 1, st)
    ELSE LET r == dfs(features, nodes[i], st)
         IN  IF r.cycle # <<>> THEN r.cycle
             ELSE detect_loop(features, nodes, i + 1, r)

\* a detection that starts the traversal at the first item only
detect_from_first_item(features) ==
    detect_loop(features, SubSeq(KeyOrder(features), 1, 1), 1,
                [visited |-> {}, rec_stack |-> {}, path |-> <<>>, cycle |-> <<>>])

detect_circular_dependencies(features) ==
    detect_loop(features, KeyOrder(features), 1,
                [visited |-> {}, rec_stack |-> {}, path |-> <<>>, cycle |-> <<>>])

\* ------------------------------------------------------------------------
\* Dependency graph: ordering (loop-runner.py, lines 153-208)
\* ------------------------------------------------------------------------

\* feat_map[feat_id]: the last item carrying that id
feat_map(features, feat_id) ==
    LET hits == {i \in 1..Len(features) : features[i].id = feat_id}
    IN  features[CHOOSE i \in hits : \A j \in hits : j <= i]

\* feat_map[x].get('priority', 99)
DefaultPriority == 99

priority_key(feat) ==
    IF feat.priority.kind = "absent" THEN PInt(DefaultPriority) ELSE feat.priority

\* edges that are counted for ids outside the collection as well
edges_to_unknown_ids(features) ==
    UNION {{<<i, j>> : j \in 1..Len(features[i].dependencies)} : i \in 1..Len(features)}

\* the pairs (item position, dependency position) that are edges: "if dep in graph"
Edges(features) ==
    LET keys == Range(KeyOrder(features))
    IN  UNION {{<<i, j>> : j \in {k \in 1..Len(features[i].dependencies) :
                                    features[i].dependencies[k] \in keys}} :
               i \in 1..Len(features)}

\* in_degree after the "count incoming edges" loop
in_degree_init(features) ==
    LET edges == Edges(features)
    IN  [k \in Range(KeyOrder(features)) |->
            Cardinality({e \in edges : features[e[1]].id = k})]

\* graph[dep]: the dependents of dep in the order they were appended
RECURSIVE graph_out(_, _, _, _)
graph_out(features, dep, i, j) ==
    IF i > Len(features) THEN <<>>
    ELSE IF j > Len(features[i].dependencies) THEN graph_out(features, dep, i + 1, 1)
    ELSE (IF features[i].dependencies[j] = dep THEN <<features[i].id>> ELSE <<>>)
             \o graph_out(features, dep, i, j + 1)

\* sorted() compares the keys with <: a number against a string is a TypeError
sorted_raises(features, queue) ==
    LET kinds == {priority_key(feat_map(features, queue[i])).kind : i \in 1..Len(queue)}
    IN  Cardinality(kinds) > 1

key_less(features, x, y) ==
    priority_key(feat_map(features, x)).val < priority_key(feat_map(features, y)).val

\* a batch that is processed in the order it was queued
batch_in_queue_order(features, queue) == queue

\* sorted(queue, key=...): stable, ascending
RECURSIVE sorted_by_priority(_, _)
sorted_by_priority(features, queue) ==
    IF queue = <<>> THEN <<>>
    ELSE LET front == sorted_by_priority(features, SubSeq(queue, 1, Len(queue) - 1))
             x == queue[Len(queue)]
             \* x goes after every element that is not greater than it
             pos == Cardinality({i \in 1..Len(front) : ~key_less(features, x, front[i])})
         IN  SubSeq(front, 1, pos) \o <<x>> \o SubSeq(front, pos + 1, Len(front))

\* for neighbor in graph[feat_id]: in_degree[neighbor] -= 1; enqueue at zero
RECURSIVE reduce_in_degree(_, _, _)
reduce_in_degree(nbrs, i, w) ==
    IF i > Len(nbrs) THEN w
    ELSE LET n == nbrs[i]
             d == w.in_degree[n] - 1
         IN  reduce_in_degree(nbrs, i + 1,
                 [w EXCEPT !.in_degree[n] = d,
                           !.queue = IF d = 0 THEN Append(w.queue, n) ELSE w.queue])

\* for feat_id in batch: append it to the result and unlock its dependents
RECURSIVE process_batch(_, _, _, _)
process_batch(features, batch, i, w) ==
    IF i > Len(batch) THEN w
    ELSE process_batch(features, batch, i + 1,
             reduce_in_degree(graph_out(features, batch[i], 1, 1), 1,
                 [w EXCEPT !.sorted_result =
                               Append(w.sorted_result, feat_map(features, batch[i]))]))

\* while queue: one wave per pass
RECURSIVE wave_loop(_, _)
wave_loop(features, w) ==
    IF w.queue = <<>> THEN w
    ELSE IF sorted_raises(features, w.queue) THEN [w EXCEPT !.ok = FALSE]
    ELSE wave_loop(features,
             process_batch(features, sorted_by_priority(features, w.queue), 1,
                           [w EXCEPT !.queue = <<>>]))

\* the items the wave algorithm never placed, in collection order
RECURSIVE unsorted_tail(_, _, _)
unsorted_tail(features, sorted_ids, i) ==
    IF i > Len(features) THEN <<>>
    ELSE (IF features[i].id \in sorted_ids THEN <<>> ELSE <<features[i]>>)
             \o unsorted_tail(features, sorted_ids, i + 1)

\* The result is [ok, val]: ok = FALSE stands for the TypeError that
\* propagates out of sorted(), val is the returned list.
topological_sort_features(features) ==
    LET keys == KeyOrder(features)
        deg == in_degree_init(features)
        start == SelectSeq(keys, LAMBDA k : deg[k] = 0)
        w == wave_loop(features, [queue |-> start, in_degree |-> deg,
                                  sorted_result |-> <<>>, ok |-> TRUE])
    IN  IF ~w.ok THEN [ok |-> FALSE, val |-> <<>>]
        ELSE IF Len(w.sorted_result) < Len(features)
        THEN [ok |-> TRUE,
              val |-> w.sorted_result
                        \o unsorted_tail(features,
                                         {w.sorted_result[i].id :
                                              i \in 1..Len(w.sorted_result)}, 1)]
        ELSE [ok |-> TRUE, val |-> w.sorted_result]

\* ------------------------------------------------------------------------
\* Scheduler (loop-runner.py, lines 585-628)
\* ------------------------------------------------------------------------

\* completed_ids = {f.get("id") for f in features if f.get("passes", False)}
completed_ids(features) == {features[i].id : i \in {j \in 1..Len(features) : features[j].passes}}

\* a dependency check that lets every item through
deps_taken_as_met(features, feat) == TRUE

\* all(dep in completed_ids for dep in deps)
deps_met(features, feat) ==
    \A k \in 1..Len(feat.dependencies) : feat.dependencies[k] \in completed_ids(features)

\* the test the scan applies to each item of the order
eligible(features, feat, skip_needs_review) ==
    /\ ~(feat.passes \/ feat.blocked)
    /\ deps_met(features, feat)
    /\ ~(skip_needs_review /\ feat.needs_review)

\* for feat in sorted_features: ... return feat; return None
RECURSIVE first_eligible(_, _, _, _)
first_eligible(features, order, i, skip_needs_review) ==
    IF i > Len(order) THEN None
    ELSE IF eligible(features, order[i], skip_needs_review) THEN order[i]
    ELSE first_eligible(features, order, i + 1, skip_needs_review)

\* file_ok: the store file exists and json.load succeeds.  Every exception,
\* the TypeError of the sort included, ends in "except: return None".
get_next_feature(file_ok, features, skip_needs_review) ==
    IF ~file_ok THEN None
    ELSE LET sorted_features == topological_sort_features(features)
         IN  IF ~sorted_features.ok THEN None
             ELSE first_eligible(features, sorted_features.val, 1, skip_needs_review)

\* a scan that does not look at the dependencies
RECURSIVE review_ignoring_dependencies(_, _, _, _)
review_ignoring_dependencies(features, done, i, needs_review) ==
    IF i > Len(features) THEN needs_review
    ELSE review_ignoring_dependencies(features, done, i + 1,
             IF features[i].needs_review /\ ~features[i].passes /\ ~features[i].blocked
             THEN Append(needs_review, features[i])
             ELSE needs_review)

\* lines 641-646: the scan of the collection, appending to needs_review
RECURSIVE review_scan(_, _, _, _)
review_scan(features, done, i, needs_review) ==
    IF i > Len(features) THEN needs_review
    ELSE review_scan(features, done, i + 1,
             IF /\ features[i].needs_review /\ ~features[i].passes /\ ~features[i].blocked
                /\ \A k \in 1..Len(features[i].dependencies) :
                       features[i].dependencies[k] \in done
             THEN Append(needs_review, features[i])
             ELSE needs_review)

\* lines 630-650; any exception of the read leaves the list empty
get_features_needing_review(file_ok, features) ==
    IF ~file_ok THEN <<>>
    ELSE review_scan(features, completed_ids(features), 1, <<>>)

\* ------------------------------------------------------------------------
\* Reconciliation engine (loop-runner.py, lines 520-559)
\* ------------------------------------------------------------------------

\* A commit message is a sequence of tokens: the fixed marker text, the
\* characters of an id, and possibly the suffix of an auto-completion commit.
MarkerText == "session: completed "

AutoSuffix == " (auto-completed by harness)"

\* git commit -m f"session: completed {feature_id}" and the harness's
\* f"session: completed {feature_id} (auto-completed by harness)"
CommitMessage(feature_id, auto) ==
    <<MarkerText>> \o feature_id \o (IF auto THEN <<AutoSuffix>> ELSE <<>>)

Messages == {CommitMessage(x, a) : x \in Ids, a \in BOOLEAN}

\* git log --grep PATTERN selects a commit whose message contains a match
\* of the pattern anywhere (the ids of the model hold no regex operators)
Contains(msg, pattern) ==
    \E k \in 0..(Len(msg) - Len(pattern)) :
        SubSeq(msg, k + 1, k + Len(pattern)) = pattern

\* a history check that takes a failed query for a hit
failed_query_counts_as_found(ledger, git_fail, feature_id) ==
    \/ feature_id \in git_fail
    \/ \E msg \in ledger : Contains(msg, <<MarkerText>> \o feature_id)

\* git_fail: the ids for which the git query raises or times out, which
\* "except: return False" turns into False
is_feature_in_git_history(ledger, git_fail, feature_id) ==
    /\ feature_id \notin git_fail
    /\ \E msg \in ledger : Contains(msg, <<MarkerText>> \o feature_id)

\* a reconciliation that copies the history's answer into every item
sync_mirrors_history(features, ledger, git_fail) ==
    [i \in 1..Len(features) |->
        [features[i] EXCEPT !.passes =
            is_feature_in_git_history(ledger, git_fail, features[i].id)]]

\* the loop over data["features"]: the list with the fixed items marked
sync_marked(features, ledger, git_fail) ==
    [i \in 1..Len(features) |->
        IF ~features[i].passes
               /\ is_feature_in_git_history(ledger, git_fail, features[i].id)
        THEN [features[i] EXCEPT !.passes = TRUE]
        ELSE features[i]]

\* a reconciliation that rewrites the file on every call
sync_always_writes(file_ok, features, ledger, git_fail) ==
    IF ~file_ok THEN [features |-> features, fixes |-> 0, wrote |-> FALSE]
    ELSE LET marked == sync_marked(features, ledger, git_fail)
             fixes == Cardinality({i \in 1..Len(features) : marked[i] # features[i]})
         IN  [features |-> marked, fixes |-> fixes, wrote |-> TRUE]

\* a reconciliation that is not performed
sync_skipped(file_ok, features, ledger, git_fail) ==
    [features |-> features, fixes |-> 0, wrote |-> FALSE]

\* [features, fixes, wrote]: the store content after the call, the returned
\* count and whether the file was written.  An unreadable store raises inside
\* the try block and the call returns 0.
sync_features_with_git(file_ok, features, ledger, git_fail) ==
    IF ~file_ok THEN [features |-> features, fixes |-> 0, wrote |-> FALSE]
    ELSE LET marked == sync_marked(features, ledger, git_fail)
             fixes == Cardinality({i \in 1..Len(features) : marked[i] # features[i]})
         IN  [features |-> marked, fixes |-> fixes, wrote |-> fixes > 0]

\* ------------------------------------------------------------------------
\* Session loop helpers (loop-runner.py, lines 561-583, 958-1083, 1299-1324)
\* ------------------------------------------------------------------------

\* most iterations a run may take: args.max_sessions
MaxSessions == 4

\* most store writes followed in a sequence of store operations
MaxWrites == 3

\* if consecutive_failures >= 3
FailureThreshold == 3

\* max_consecutive_failures = 3 in orchestrate_implementation
max_consecutive_failures == 3

\* a loop condition that allows one iteration more
budget_plus_one(n) == n <= MaxSessions + 1

\* while session <= args.max_sessions
within_budget(n) == n <= MaxSessions

\* an escalation test that lets the threshold itself pass
escalation_above_threshold(failures) == failures > FailureThreshold

\* if consecutive_failures >= 3
escalation_due(failures) == failures >= FailureThreshold

\* an unreadable store yields the all-zero status ("except: return ...")
get_feature_status(file_ok, features) ==
    IF ~file_ok THEN [total |-> 0, completed |-> 0, remaining |-> 0, blocked |-> 0]
    ELSE LET completed == Cardinality({i \in 1..Len(features) : features[i].passes})
         IN  [total |-> Len(features),
              completed |-> completed,
              remaining |-> Len(features) - completed,
              blocked |-> Cardinality({i \in 1..Len(features) : features[i].blocked})]

\* str.lower() on the categories and complexity values of the model
Lower(category) ==
    IF category = "QA" THEN "qa"
    ELSE IF category = "HIGH" THEN "high"
    ELSE IF category = "API" THEN "api"
    ELSE IF category = "Auth" THEN "auth"
    ELSE category

\* str.startswith
StartsWith(str, prefix) ==
    Len(str) >= Len(prefix) /\ SubSeq(str, 1, Len(prefix)) = prefix

\* a review-gate test that looks at the category only
is_qa_by_category(feat) == Lower(feat.category) = "qa"

\* feature_category == "qa" or feature_id.startswith("qa-")
is_qa_feature(feat) ==
    Lower(feat.category) = "qa" \/ StartsWith(feat.id, <<"q", "a", "-">>)

\* for feat in data["features"]: if feat["id"] == feature_id: feat[field] = True; break
set_flag(features, feature_id, field) ==
    LET hits == {i \in 1..Len(features) : features[i].id = feature_id}
    IN  IF hits = {} THEN features
        ELSE LET first == CHOOSE i \in hits : \A j \in hits : i <= j
             IN  [features EXCEPT ![first] =
                     IF field = "passes" THEN [@ EXCEPT !.passes = TRUE]
                     ELSE [@ EXCEPT !.blocked = TRUE]]

\* the fix feature a QA session appends to the list
NewFeature(feature_id) ==
    [id |-> feature_id, priority |-> PAbsent, category |-> "api", passes |-> FALSE,
     blocked |-> FALSE, needs_review |-> FALSE, dependencies |-> <<>>]

\* What a session (an opaque subprocess with write access to the project)
\* may do to the store and the history while it works on the item target:
\* nothing, mark the item passed with or without its commit, commit without
\* updating the store, mark the item blocked, append a fix feature, or leave
\* an unparsable file.
ExecutorEffects == {"none", "pass", "pass_and_commit", "commit_only", "block",
                    "append", "corrupt"}

executor_store(effect, features, target) ==
    CASE effect \in {"pass", "pass_and_commit"} -> set_flag(features, target, "passes")
      [] effect = "block" -> set_flag(features, target, "blocked")
      [] effect = "append" -> Append(features, NewFeature(IdList[Len(features) + 1]))
      [] OTHER -> features

executor_ledger(effect, ledger, target) ==
    IF effect \in {"pass_and_commit", "commit_only"}
    THEN ledger \cup {CommitMessage(target, FALSE)}
    ELSE ledger

\* a counter update that takes a completed item for the only progress
counter_resets_only_on_completion(taken, failures) ==
    IF taken = "completed" THEN 0 ELSE failures + 1

\* the counter after the progress evaluation took the given branch:
\* "consecutive_failures = 0" at lines 1292, 1297, 1339 and
\* "consecutive_failures += 1" at lines 1310, 1346, 1350, 1354
counter_after(taken, failures) ==
    IF taken \in {"completed", "features_added", "auto_completed"} THEN 0
    ELSE failures + 1

\* orchestrator.py, get_next_feature (lines 448-463): the items sorted by
\* priority alone, the first one that is unfinished, not blocked and has its
\* dependencies passed.  The result is [ok, val]: nothing catches the
\* TypeError of sorted() here, ok = FALSE stands for it.
orchestrator_get_next_feature(file_ok, features) ==
    IF ~file_ok THEN [ok |-> TRUE, val |-> None]
    ELSE LET ids == [i \in 1..Len(features) |-> features[i].id]
         IN  IF sorted_raises(features, ids) THEN [ok |-> FALSE, val |-> None]
             ELSE LET by_priority == sorted_by_priority(features, ids)
                      order == [k \in 1..Len(ids) |-> feat_map(features, by_priority[k])]
                  IN  [ok |-> TRUE, val |-> first_eligible(features, order, 1, FALSE)]

\* ------------------------------------------------------------------------
\* Blocked workflow (loop-runner.py, lines 214-262) and the auto-completion
\* write (main, lines 1315-1324)
\* ------------------------------------------------------------------------

\* for feat in data["features"]: if feat["id"] == feature_id:
\*     feat["blocked"] = False; break
clear_blocked(features, feature_id) ==
    LET hits == {i \in 1..Len(features) : features[i].id = feature_id}
    IN  IF hits = {} THEN features
        ELSE LET first == CHOOSE i \in hits : \A j \in hits : i <= j
             IN  [features EXCEPT ![first] = [@ EXCEPT !.blocked = FALSE]]

\* a mark-blocked that writes what it has whether or not the file parsed
mark_blocked_unchecked(file_ok, features, feature_id) ==
    [features |-> set_flag(features, feature_id, "blocked"), wrote |-> TRUE]

\* [features, wrote]: json.load raises on an unreadable file and the except
\* branch prints; otherwise the file is written, match or no match
mark_feature_blocked(file_ok, features, feature_id) ==
    IF ~file_ok THEN [features |-> features, wrote |-> FALSE]
    ELSE [features |-> set_flag(features, feature_id, "blocked"), wrote |-> TRUE]

\* an unblock that pops the dependencies along with the blocked metadata
unblock_clearing_dependencies(file_ok, features, feature_id) ==
    IF ~file_ok THEN [features |-> features, wrote |-> FALSE]
    ELSE [features |-> [i \in 1..Len(features) |->
                           IF features[i].id = feature_id
                           THEN [features[i] EXCEPT !.blocked = FALSE,
                                                    !.dependencies = <<>>]
                           ELSE features[i]],
          wrote |-> TRUE]

unblock_feature(file_ok, features, feature_id) ==
    IF ~file_ok THEN [features |-> features, wrote |-> FALSE]
    ELSE [features |-> clear_blocked(features, feature_id), wrote |-> TRUE]

\* main, lines 1315-1324: load, set passes on the first item with the id,
\* write; an unreadable file raises into "except Exception"
auto_complete(file_ok, features, feature_id) ==
    IF ~file_ok THEN [features |-> features, wrote |-> FALSE]
    ELSE [features |-> set_flag(features, feature_id, "passes"), wrote |-> TRUE]

\* ------------------------------------------------------------------------
\* Complexity classifier (loop-runner.py, lines 347-404; orchestrator.py,
\* lines 39-101)
\* ------------------------------------------------------------------------

\* A text is the set of the words that occur in it; the description also
\* carries its length in characters.  The item given to the classifier:
\* complexity ("" when absent), category, name, description, dependencies
\* and tests.
NoText ==
    [complexity |-> "", category |-> {}, name |-> {},
     description |-> [words |-> {}, len |-> 0], dependencies |-> <<>>, tests |-> <<>>]

high_keywords ==
    {"security", "crypto", "encrypt", "auth", "credential", "password", "ssh",
     "certificate", "token", "session", "permission", "rbac", "injection",
     "sanitize", "validate", "vulnerability"}

medium_keywords ==
    {"api", "endpoint", "database", "repository", "migration", "schema", "patch",
     "system", "service", "handler", "execute", "command"}

low_keywords == {"refactor", "rename", "cleanup", "format", "typo", "comment", "docs"}

\* the words of the items that hold a keyword without being one
Substrings == {<<"auth", "author">>, <<"format", "information">>}

\* keyword in word: Python's substring test on strings
occurs_in(keyword, word) == keyword = word \/ <<keyword, word>> \in Substrings

\* keyword in text.lower()
keyword_in(keyword, text) == \E w \in text : occurs_in(keyword, Lower(w))

\* a classifier that never looks at the override
complexity_from_signals_only(feat) ==
    LET description == feat.description.words
        s1 == IF \E k \in high_keywords :
                    keyword_in(k, description) \/ keyword_in(k, feat.category)
                        \/ keyword_in(k, feat.name)
              THEN 2 ELSE 0
        s2 == s1 + (IF Len(feat.dependencies) > 3 THEN 1 ELSE 0)
        s3 == s2 + (IF Len(feat.tests) > 5 THEN 1 ELSE 0)
        s4 == s3 + (IF \E k \in medium_keywords :
                          keyword_in(k, description) \/ keyword_in(k, feat.category)
                    THEN 1 ELSE 0)
        s5 == s4 - (IF \E k \in low_keywords :
                          keyword_in(k, description) \/ keyword_in(k, feat.category)
                              \/ keyword_in(k, feat.name)
                    THEN 2 ELSE 0)
        s6 == s5 - (IF keyword_in("simple", feat.name) \/ keyword_in("minor", feat.name)
                    THEN 1 ELSE 0)
        signals == s6 - (IF feat.description.len < 40 THEN 1 ELSE 0)
    IN  IF signals >= 3 THEN "high" ELSE IF signals <= 0 THEN "low" ELSE "medium"

\* loop-runner.py: the override, then the signals added up in source order
get_feature_complexity(feat) ==
    LET override == Lower(feat.complexity)
        description == feat.description.words
        s1 == IF \E k \in high_keywords :
                    keyword_in(k, description) \/ keyword_in(k, feat.category)
                        \/ keyword_in(k, feat.name)
              THEN 2 ELSE 0
        s2 == s1 + (IF Len(feat.dependencies) > 3 THEN 1 ELSE 0)
        s3 == s2 + (IF Len(feat.tests) > 5 THEN 1 ELSE 0)
        s4 == s3 + (IF \E k \in medium_keywords :
                          keyword_in(k, description) \/ keyword_in(k, feat.category)
                    THEN 1 ELSE 0)
        s5 == s4 - (IF \E k \in low_keywords :
                          keyword_in(k, description) \/ keyword_in(k, feat.category)
                              \/ keyword_in(k, feat.name)
                    THEN 2 ELSE 0)
        s6 == s5 - (IF keyword_in("simple", feat.name) \/ keyword_in("minor", feat.name)
                    THEN 1 ELSE 0)
        signals == s6 - (IF feat.description.len < 40 THEN 1 ELSE 0)
    IN  IF override \in {"high", "medium", "low"} THEN override
        ELSE IF signals >= 3 THEN "high"
        ELSE IF signals <= 0 THEN "low"
        ELSE "medium"

\* a copy that also looks for the medium keywords in the name
complexity_with_medium_in_name(feat) ==
    LET override == Lower(feat.complexity)
        description == feat.description.words
        high == \E k \in high_keywords :
                    keyword_in(k, description) \/ keyword_in(k, feat.category)
                        \/ keyword_in(k, feat.name)
        medium == \E k \in medium_keywords :
                    keyword_in(k, description) \/ keyword_in(k, feat.category)
                        \/ keyword_in(k, feat.name)
        low == \E k \in low_keywords :
                    keyword_in(k, description) \/ keyword_in(k, feat.category)
                        \/ keyword_in(k, feat.name)
        signals == (IF high THEN 2 ELSE 0)
                   + (IF Len(feat.dependencies) > 3 THEN 1 ELSE 0)
                   + (IF Len(feat.tests) > 5 THEN 1 ELSE 0)
                   + (IF medium THEN 1 ELSE 0)
                   - (IF low THEN 2 ELSE 0)
                   - (IF keyword_in("simple", feat.name) \/ keyword_in("minor", feat.name)
                      THEN 1 ELSE 0)
                   - (IF feat.description.len < 40 THEN 1 ELSE 0)
    IN  IF override \in {"high", "medium", "low"} THEN override
        ELSE IF signals >= 3 THEN "high"
        ELSE IF signals <= 0 THEN "low"
        ELSE "medium"

\* orchestrator.py, lines 39-101
orchestrator_get_feature_complexity(feat) ==
    LET override == Lower(feat.complexity)
        description == feat.description.words
        high == \E k \in high_keywords :
                    keyword_in(k, description) \/ keyword_in(k, feat.category)
                        \/ keyword_in(k, feat.name)
        medium == \E k \in medium_keywords :
                    keyword_in(k, description) \/ keyword_in(k, feat.category)
        low == \E k \in low_keywords :
                    keyword_in(k, description) \/ keyword_in(k, feat.category)
                        \/ keyword_in(k, feat.name)
        signals == (IF high THEN 2 ELSE 0)
                   + (IF Len(feat.dependencies) > 3 THEN 1 ELSE 0)
                   + (IF Len(feat.tests) > 5 THEN 1 ELSE 0)
                   + (IF medium THEN 1 ELSE 0)
                   - (IF low THEN 2 ELSE 0)
                   - (IF keyword_in("simple", feat.name) \/ keyword_in("minor", feat.name)
                      THEN 1 ELSE 0)
                   - (IF feat.description.len < 40 THEN 1 ELSE 0)
    IN  IF override \in {"high", "medium", "low"} THEN override
        ELSE IF signals >= 3 THEN "high"
        ELSE IF signals <= 0 THEN "low"
        ELSE "medium"

\* ------------------------------------------------------------------------
\* Validation (loop-runner.py, validate_feature_list, lines 34-105)
\* ------------------------------------------------------------------------

\* An item as validation reads it: present holds the required fields the
\* item has, id is '' (here <<>>) when the item has none, complexity is ""
\* when the item has none.
REQUIRED_FIELDS == <<"id", "name", "description">>

\* f'feature_{i}' for the item at 0-based position i
DefaultId(i) == <<"feature_", <<"0", "1", "2", "3">>[i + 1]>>

\* for field in REQUIRED_FIELDS: if field not in feat: errors.append(...)
RECURSIVE missing_fields(_, _)
missing_fields(feat, k) ==
    IF k > Len(REQUIRED_FIELDS) THEN <<>>
    ELSE (IF REQUIRED_FIELDS[k] \in feat.present THEN <<>>
          ELSE << <<"missing", REQUIRED_FIELDS[k]>> >>)
         \o missing_fields(feat, k + 1)

\* for dep in deps: a warning for each dep that is neither in feature_ids
\* nor the id of any item
RECURSIVE unknown_deps(_, _, _, _)
unknown_deps(features, deps, k, feature_ids) ==
    IF k > Len(deps) THEN <<>>
    ELSE (IF deps[k] \notin feature_ids
             /\ deps[k] \notin {features[j].id :
                                  j \in {m \in 1..Len(features) : "id" \in features[m].present}}
          THEN << <<"unknown_dependency", deps[k]>> >>
          ELSE <<>>)
         \o unknown_deps(features, deps, k + 1, feature_ids)

\* the loop over enumerate(features) from position i on; acc holds
\* feature_ids, errors and warnings
RECURSIVE validate_items(_, _, _)
validate_items(features, i, acc) ==
    IF i > Len(features) THEN acc
    ELSE LET feat == features[i]
             feat_id == IF "id" \in feat.present THEN feat.id ELSE DefaultId(i - 1)
             duplicate == IF feat_id \in acc.feature_ids
                          THEN << <<"duplicate", feat_id>> >> ELSE <<>>
             ids == acc.feature_ids \cup {feat_id}
             priority == IF feat.priority.kind = "str"
                         THEN << <<"priority", feat_id>> >> ELSE <<>>
             complexity == Lower(feat.complexity)
             invalid_complexity ==
                 IF complexity # "" /\ complexity \notin {"high", "medium", "low"}
                 THEN << <<"complexity", feat_id>> >> ELSE <<>>
         IN  validate_items(features, i + 1,
                 [feature_ids |-> ids,
                  errors |-> acc.errors \o missing_fields(feat, 1) \o duplicate,
                  warnings |-> acc.warnings \o priority \o invalid_complexity
                                  \o unknown_deps(features, feat.dependencies, 1, ids)])

\* a validation that does not look for dependency cycles
validate_without_cycle_check(exists, json_ok, features) ==
    IF ~exists THEN [valid |-> FALSE, errors |-> << <<"not_found">> >>, warnings |-> <<>>]
    ELSE IF ~json_ok
    THEN [valid |-> FALSE, errors |-> << <<"invalid_json">> >>, warnings |-> <<>>]
    ELSE IF features = <<>>
    THEN [valid |-> FALSE, errors |-> << <<"no_features">> >>, warnings |-> <<>>]
    ELSE LET acc == validate_items(features, 1,
                        [feature_ids |-> {}, errors |-> <<>>, warnings |-> <<>>])
         IN  [valid |-> acc.errors = <<>>, errors |-> acc.errors,
              warnings |-> acc.warnings]

\* {"valid": bool, "errors": [...], "warnings": [...]}; valid is set to False
\* at every errors.append and nowhere else
validate_feature_list(exists, json_ok, features) ==
    IF ~exists THEN [valid |-> FALSE, errors |-> << <<"not_found">> >>, warnings |-> <<>>]
    ELSE IF ~json_ok
    THEN [valid |-> FALSE, errors |-> << <<"invalid_json">> >>, warnings |-> <<>>]
    ELSE IF features = <<>>
    THEN [valid |-> FALSE, errors |-> << <<"no_features">> >>, warnings |-> <<>>]
    ELSE LET acc == validate_items(features, 1,
                        [feature_ids |-> {}, errors |-> <<>>, warnings |-> <<>>])
             circular == detect_circular_dependencies(features)
             errors == acc.errors \o (IF circular # <<>>
                                      THEN << <<"circular", circular>> >> ELSE <<>>)
         IN  [valid |-> errors = <<>>, errors |-> errors, warnings |-> acc.warnings]

\* ------------------------------------------------------------------------
\* State
\* ------------------------------------------------------------------------

VARIABLES
    features,       \* the "features" list of feature_list.json
    malformed,      \* feature_list.json does not parse (json.load raises)
    ledger,         \* the commit messages of the git history
    git_fail,       \* the ids whose git query fails
    writes,         \* how many times the store file has been written
    fixes,          \* result of sync_features_with_git
    op,             \* the operation applied last
    sorted_ret,     \* result of topological_sort_features
    cycle_ret,      \* result of detect_circular_dependencies
    next_ret,       \* result of get_next_feature
    skip_arg,       \* the skip_needs_review argument of that call
    review_ret,     \* result of get_features_needing_review
    orchestrator_next_ret,  \* result of get_next_feature of orchestrator.py
    document,       \* feature_list.json as validate_feature_list finds it
    validation,     \* result of validate_feature_list
    feature_arg,        \* the item given to get_feature_complexity
    complexity_ret,     \* result of get_feature_complexity of loop-runner.py
    orchestrator_ret,    \* result of the copy in orchestrator.py
    stage,          \* per concurrent store operation: idle, loaded, written
    job,            \* per concurrent store operation: what it does
    snapshot,       \* per concurrent store operation: the content it loaded
    program,        \* which loop runs: "loop-runner" or "orchestrator"
    pc,             \* where the while loop stands
    interactive,    \* args.interactive
    skip_review,    \* args.skip_review
    session,        \* the iteration counter
    dispatches,     \* how many times the loop has reached the executor call
    consecutive_failures,
    status,         \* get_feature_status at the top of the iteration
    new_status,     \* get_feature_status after the dispatch
    dispatched,     \* id of the item handed to the executor, <<>> if none
    outcome,        \* how the executor call ended
    tests_passed,   \* verification["tests_passed"]
    branch,         \* the branch the progress evaluation took
    auto_completed, \* id the harness marked passed in this iteration
    choice          \* the answer to "Continue? [y/N]"

storeVars == <<features, malformed, writes>>

gitVars == <<ledger, git_fail>>

pureVars == <<sorted_ret, cycle_ret, next_ret, skip_arg, review_ret, orchestrator_next_ret>>

classVars == <<feature_arg, complexity_ret, orchestrator_ret>>

raceVars == <<stage, job, snapshot>>

checkVars == <<document, validation, classVars, raceVars>>

loopVars == <<program, pc, interactive, skip_review, session, dispatches,
              consecutive_failures, status,
              new_status, dispatched, outcome, tests_passed, branch, auto_completed,
              choice>>

vars == <<storeVars, gitVars, fixes, op, pureVars, checkVars, loopVars>>

\* ------------------------------------------------------------------------
\* Collections the functions are applied to
\* ------------------------------------------------------------------------

\* n items with the ids IdList[1..n], in that order, and the given fields
MakeFeatures(n, prio, cat, pass, blk, rev, deps) ==
    [i \in 1..n |-> [id |-> IdList[i], priority |-> prio[i], category |-> cat[i],
                     passes |-> pass[i], blocked |-> blk[i], needs_review |-> rev[i],
                     dependencies |-> deps[i]]]

InputPriorities == {PInt(1), PAbsent, PStr}

NoSort == [ok |-> TRUE, val |-> <<>>]

\* orchestrator.py's get_next_feature has not been called
NoSelection == [ok |-> TRUE, val |-> None]

\* unfinished items with any dependency lists (dangling and cyclic included)
\* and numeric, absent or string priorities
\* the priorities of the collections that are ordered: also a second number
GraphPriorities == InputPriorities \cup {PInt(10)}

GraphInputs ==
    \E n \in 1..Len(IdList) :
        \E prio \in [1..n -> GraphPriorities],
           deps \in [1..n -> DistinctSeqs(Ids, MaxDeps)] :
            features = MakeFeatures(n, prio, [i \in 1..n |-> "api"],
                                    [i \in 1..n |-> FALSE], [i \in 1..n |-> FALSE],
                                    [i \in 1..n |-> FALSE], deps)

\* completion states of an item: unfinished, passed, blocked, awaiting review
Flags(p, b, r) == [passes |-> p, blocked |-> b, needs_review |-> r]

ItemStates == {Flags(FALSE, FALSE, FALSE), Flags(TRUE, FALSE, FALSE),
               Flags(FALSE, TRUE, FALSE), Flags(FALSE, FALSE, TRUE)}

\* items in every completion state, with at most one dependency each
SelectInputs ==
    \E n \in 1..Len(IdList) :
        \E prio \in [1..n -> InputPriorities],
           deps \in [1..n -> DistinctSeqs(Ids, 1)],
           st \in [1..n -> ItemStates] :
            features = MakeFeatures(n, prio, [i \in 1..n |-> "api"],
                                    [i \in 1..n |-> st[i].passes],
                                    [i \in 1..n |-> st[i].blocked],
                                    [i \in 1..n |-> st[i].needs_review], deps)

\* validate_feature_list has not been given a file, and has not reported
NoDocument == [exists |-> TRUE, json_ok |-> TRUE, items |-> <<>>]

NoReport == [valid |-> TRUE, errors |-> <<>>, warnings |-> <<>>]

\* get_feature_complexity has not been given an item
\* no store operations run side by side
NoRace ==
    /\ stage = <<>>
    /\ job = <<>>
    /\ snapshot = <<>>

NoClassification ==
    /\ feature_arg = NoText
    /\ complexity_ret = ""
    /\ orchestrator_ret = ""

\* no function has been applied yet
NoResults ==
    /\ op = "input"
    /\ document = NoDocument
    /\ validation = NoReport
    /\ NoClassification
    /\ NoRace
    /\ sorted_ret = NoSort
    /\ cycle_ret = <<>>
    /\ next_ret = None
    /\ skip_arg = FALSE
    /\ review_ret = <<>>
    /\ orchestrator_next_ret = NoSelection
    /\ fixes = 0

NoStatus == [total |-> 0, completed |-> 0, remaining |-> 0, blocked |-> 0]

\* no loop is running
NoLoop ==
    /\ program = "none"
    /\ pc = "idle"
    /\ dispatches = 0
    /\ interactive = FALSE
    /\ skip_review = FALSE
    /\ session = 1
    /\ consecutive_failures = 0
    /\ status = NoStatus
    /\ new_status = NoStatus
    /\ dispatched = <<>>
    /\ outcome = "none"
    /\ tests_passed = FALSE
    /\ branch = "none"
    /\ auto_completed = <<>>
    /\ choice = "none"

\* a readable store, an empty history
NoLedger ==
    /\ malformed = FALSE
    /\ ledger = {}
    /\ git_fail = {}
    /\ writes = 0

InitGraph == GraphInputs /\ NoLedger /\ NoResults /\ NoLoop

InitSelect == SelectInputs /\ NoLedger /\ NoResults /\ NoLoop

CallSort ==
    /\ op = "input"
    /\ op' = "topological_sort_features"
    /\ sorted_ret' = topological_sort_features(features)
    /\ UNCHANGED <<storeVars, gitVars, fixes, cycle_ret, next_ret, skip_arg, review_ret,
                   orchestrator_next_ret,
                   checkVars, loopVars>>

CallDetect ==
    /\ op = "input"
    /\ op' = "detect_circular_dependencies"
    /\ cycle_ret' = detect_circular_dependencies(features)
    /\ UNCHANGED <<storeVars, gitVars, fixes, sorted_ret, next_ret, skip_arg, review_ret,
                   orchestrator_next_ret,
                   checkVars, loopVars>>

CallNext ==
    /\ op = "input"
    /\ \E skip \in BOOLEAN :
        /\ skip_arg' = skip
        /\ next_ret' = get_next_feature(~malformed, features, skip)
    /\ op' = "get_next_feature"
    /\ UNCHANGED <<storeVars, gitVars, fixes, sorted_ret, cycle_ret, review_ret,
                   orchestrator_next_ret,
                   checkVars, loopVars>>

\* get_features_needing_review(project_path)
CallReview ==
    /\ op = "input"
    /\ op' = "get_features_needing_review"
    /\ review_ret' = get_features_needing_review(~malformed, features)
    /\ UNCHANGED <<storeVars, gitVars, fixes, sorted_ret, cycle_ret, next_ret, skip_arg,
                   orchestrator_next_ret, checkVars, loopVars>>

\* orchestrator.py, line 1089: get_next_feature(project_path)
CallOrchestratorNext ==
    /\ op = "input"
    /\ op' = "orchestrator_get_next_feature"
    /\ orchestrator_next_ret' = orchestrator_get_next_feature(~malformed, features)
    /\ UNCHANGED <<storeVars, gitVars, fixes, sorted_ret, cycle_ret, next_ret, skip_arg,
                   review_ret, checkVars, loopVars>>

NextGraph == CallSort \/ CallDetect \/ CallNext

\* the dependency graph functions applied to every collection of GraphInputs
SpecGraph == InitGraph /\ [][NextGraph]_vars

NextSelect == CallSort \/ CallNext \/ CallReview \/ CallOrchestratorNext

\* the scheduler applied to every collection of SelectInputs
SpecSelect == InitSelect /\ [][NextSelect]_vars

\* ------------------------------------------------------------------------
\* Reconciliation against a history that grows between the calls
\* ------------------------------------------------------------------------

\* stores of items in every completion state, readable or not
SyncInputs ==
    \E n \in 1..Len(IdList) :
        \E st \in [1..n -> ItemStates] :
            features = MakeFeatures(n, [i \in 1..n |-> PAbsent], [i \in 1..n |-> "api"],
                                    [i \in 1..n |-> st[i].passes],
                                    [i \in 1..n |-> st[i].blocked],
                                    [i \in 1..n |-> st[i].needs_review],
                                    [i \in 1..n |-> <<>>])

InitSync ==
    /\ SyncInputs
    /\ malformed \in BOOLEAN
    /\ ledger = {}
    /\ git_fail = {}
    /\ writes = 0
    /\ NoResults
    /\ NoLoop

\* main, line 1199: sync_features_with_git(project_path)
Sync ==
    LET r == sync_features_with_git(~malformed, features, ledger, git_fail)
    IN  /\ features' = r.features
        /\ fixes' = r.fixes
        /\ writes' = writes + (IF r.wrote THEN 1 ELSE 0)
        /\ op' = "sync_features_with_git"
        /\ UNCHANGED <<malformed, gitVars, pureVars, checkVars, loopVars>>

\* a session commits "session: completed <id>" (run_session, line 1058), or
\* the harness its auto-completion commit (main, line 1329)
Commit ==
    /\ Cardinality(ledger) < MaxLedger
    /\ \E msg \in Messages \ ledger : ledger' = ledger \cup {msg}
    /\ op' = "commit"
    /\ UNCHANGED <<storeVars, git_fail, fixes, pureVars, checkVars, loopVars>>

\* the git queries start or stop failing for some ids
GitChange ==
    /\ \E S \in SUBSET Ids : S # git_fail /\ git_fail' = S
    /\ op' = "git_change"
    /\ UNCHANGED <<storeVars, ledger, fixes, pureVars, checkVars, loopVars>>

NextSync == Sync \/ Commit \/ GitChange

SpecSync == InitSync /\ [][NextSync]_vars

\* ------------------------------------------------------------------------
\* Validation applied to store files
\* ------------------------------------------------------------------------

\* what an item can lack, and what it can carry in the fields validation
\* reads
ItemIds == {IdList[1], IdList[2], <<>>}

ComplexityValues == {"", "high", "HIGH", "huge"}

RawItems ==
    {[id |-> x, present |-> (IF x = <<>> THEN {} ELSE {"id"}) \cup others,
      priority |-> p, complexity |-> c, dependencies |-> d] :
        x \in ItemIds,
        others \in {{"name", "description"}, {"name"}, {"description"}},
        p \in {PAbsent, PStr}, c \in ComplexityValues,
        d \in DistinctSeqs(Ids, 1)}

\* absent and unparsable files, and files with up to two items
ValidateInputs ==
    \/ document = [exists |-> FALSE, json_ok |-> FALSE, items |-> <<>>]
    \/ document = [exists |-> TRUE, json_ok |-> FALSE, items |-> <<>>]
    \/ \E n \in 0..2 : \E items \in [1..n -> RawItems] :
           document = [exists |-> TRUE, json_ok |-> TRUE, items |-> items]

InitValidate ==
    /\ ValidateInputs
    /\ features = <<>>
    /\ NoLedger
    /\ op = "input"
    /\ validation = NoReport
    /\ NoClassification
    /\ NoRace
    /\ sorted_ret = NoSort
    /\ cycle_ret = <<>>
    /\ next_ret = None
    /\ skip_arg = FALSE
    /\ review_ret = <<>>
    /\ orchestrator_next_ret = NoSelection
    /\ fixes = 0
    /\ NoLoop

CallValidate ==
    /\ op = "input"
    /\ op' = "validate_feature_list"
    /\ validation' = validate_feature_list(document.exists, document.json_ok,
                                           document.items)
    /\ UNCHANGED <<storeVars, gitVars, fixes, pureVars, document, classVars, raceVars,
                   loopVars>>

NextValidate == CallValidate

SpecValidate == InitValidate /\ [][NextValidate]_vars

\* ------------------------------------------------------------------------
\* Store operations in any order, on readable and unreadable files
\* ------------------------------------------------------------------------

\* one or two items in every completion state, with no dependency or one
\* (on f1 or on an id no item carries)
StoreInputs ==
    \E n \in 1..2 :
        \E st \in [1..n -> ItemStates],
           deps \in [1..n -> {<<>>, <<IdList[1]>>, <<IdList[3]>>}] :
            features = MakeFeatures(n, [i \in 1..n |-> PAbsent], [i \in 1..n |-> "api"],
                                    [i \in 1..n |-> st[i].passes],
                                    [i \in 1..n |-> st[i].blocked],
                                    [i \in 1..n |-> st[i].needs_review], deps)

InitStore ==
    /\ StoreInputs
    /\ malformed \in BOOLEAN
    /\ ledger \in {{}, {CommitMessage(IdList[1], FALSE)}}
    /\ git_fail = {}
    /\ writes = 0
    /\ NoResults
    /\ NoLoop

\* mark_feature_blocked(project_path, feature_id, reason)
MarkBlocked ==
    /\ writes < MaxWrites
    /\ \E feature_id \in Ids :
        LET r == mark_feature_blocked(~malformed, features, feature_id)
        IN  /\ features' = r.features
            /\ writes' = writes + (IF r.wrote THEN 1 ELSE 0)
    /\ op' = "mark_feature_blocked"
    /\ UNCHANGED <<malformed, gitVars, fixes, pureVars, checkVars, loopVars>>

\* main, line 1151: unblock_feature(project_path, args.unblock)
Unblock ==
    /\ writes < MaxWrites
    /\ \E feature_id \in Ids :
        LET r == unblock_feature(~malformed, features, feature_id)
        IN  /\ features' = r.features
            /\ writes' = writes + (IF r.wrote THEN 1 ELSE 0)
    /\ op' = "unblock_feature"
    /\ UNCHANGED <<malformed, gitVars, fixes, pureVars, checkVars, loopVars>>

\* main, lines 1301-1324: the item get_next_feature selected from the file
\* (line 1301, read while the file could be parsed), unless it is a QA item,
\* is marked in the file as it is read again at line 1316
AutoComplete ==
    /\ writes < MaxWrites
    /\ LET current_feature == get_next_feature(TRUE, features, FALSE)
           r == auto_complete(~malformed, features, current_feature.id)
       IN  /\ current_feature # None
           /\ ~is_qa_feature(current_feature)
           /\ features' = r.features
           /\ writes' = writes + (IF r.wrote THEN 1 ELSE 0)
    /\ op' = "auto_complete"
    /\ UNCHANGED <<malformed, gitVars, fixes, pureVars, checkVars, loopVars>>

\* Every write is "with open(feature_file, 'w') as f: json.dump(data, f)"
\* (lines 236-237, 258-259, 551-552, 1322-1323): open truncates the file and
\* json.dump then writes it piece by piece.  A process that is killed inside
\* the block leaves the file empty or cut short.  Any operation that has
\* read the file can be the one that is writing.
WriteInterrupted ==
    /\ ~malformed
    /\ malformed' = TRUE
    /\ op' = "write_interrupted"
    /\ UNCHANGED <<features, writes, gitVars, fixes, pureVars, checkVars, loopVars>>

\* get_feature_status(project_path)
CallStatus ==
    /\ op = "input"
    /\ op' = "get_feature_status"
    /\ status' = get_feature_status(~malformed, features)
    /\ UNCHANGED <<storeVars, gitVars, fixes, pureVars, checkVars, program, pc,
                   interactive, skip_review, session, dispatches, consecutive_failures,
                   new_status, dispatched, outcome, tests_passed, branch,
                   auto_completed, choice>>

NextStore ==
    \/ Sync
    \/ MarkBlocked
    \/ Unblock
    \/ AutoComplete
    \/ WriteInterrupted
    \/ CallNext
    \/ CallStatus

SpecStore == InitStore /\ [][NextStore]_vars

\* ------------------------------------------------------------------------
\* Store operations side by side (two loops, or a loop and --unblock)
\* ------------------------------------------------------------------------

\* the operations that run against one store at the same time
Operations == {1, 2}

\* What an operation does: the reconciliation, the auto-completion of the
\* item it selects, or the unblocking of an id.
Jobs ==
    {[kind |-> "sync", id |-> <<>>], [kind |-> "auto_complete", id |-> <<>>]}
        \cup {[kind |-> "unblock", id |-> x] : x \in {IdList[1], IdList[2]}}

\* the document the operation has in memory after its loop over the items
modified(j, data) ==
    CASE j.kind = "sync" -> sync_features_with_git(TRUE, data, ledger, git_fail).features
      [] j.kind = "unblock" -> unblock_feature(TRUE, data, j.id).features
      [] OTHER -> auto_complete(TRUE, data, get_next_feature(TRUE, data, FALSE).id).features

\* whether the operation opens the file for writing: the reconciliation
\* only after a fix, the auto-completion only for an item that is no QA item
opens_for_writing(j, data) ==
    CASE j.kind = "sync" -> sync_features_with_git(TRUE, data, ledger, git_fail).wrote
      [] j.kind = "unblock" -> TRUE
      [] OTHER -> LET current_feature == get_next_feature(TRUE, data, FALSE)
                  IN  current_feature # None /\ ~is_qa_feature(current_feature)

\* a write that loads the file again and applies the change to what it finds
dumped_after_reload(j, data, on_disk) == modified(j, on_disk)

\* json.dump(data, f): the document in memory replaces the file, whatever
\* the file holds by now
dumped(j, data, on_disk) == modified(j, data)

InitRace ==
    /\ StoreInputs
    /\ malformed = FALSE
    /\ ledger \in {{}, {CommitMessage(IdList[2], FALSE)}}
    /\ git_fail = {}
    /\ writes = 0
    /\ op = "input"
    /\ document = NoDocument
    /\ validation = NoReport
    /\ NoClassification
    /\ stage = [o \in Operations |-> "idle"]
    /\ job = [o \in Operations |-> [kind |-> "none", id |-> <<>>]]
    /\ snapshot = [o \in Operations |-> <<>>]
    /\ sorted_ret = NoSort
    /\ cycle_ret = <<>>
    /\ next_ret = None
    /\ skip_arg = FALSE
    /\ review_ret = <<>>
    /\ orchestrator_next_ret = NoSelection
    /\ fixes = 0
    /\ NoLoop

\* with open(feature_file) as f: data = json.load(f)
\* (lines 538-539, 249-250, 1316-1317; the auto-completion's selection at
\* line 1301 reads the same content)
Load ==
    \E o \in Operations, j \in Jobs :
        /\ stage[o] = "idle"
        /\ stage' = [stage EXCEPT ![o] = "loaded"]
        /\ job' = [job EXCEPT ![o] = j]
        /\ snapshot' = [snapshot EXCEPT ![o] = features]
        /\ op' = "load"
        /\ UNCHANGED <<storeVars, gitVars, fixes, pureVars, document, validation,
                       classVars, loopVars>>

\* with open(feature_file, "w") as f: json.dump(data, f, indent=2)
\* (lines 551-552, 258-259, 1322-1323)
Dump ==
    \E o \in Operations :
        /\ stage[o] = "loaded"
        /\ stage' = [stage EXCEPT ![o] = "written"]
        /\ IF opens_for_writing(job[o], snapshot[o])
           THEN /\ features' = dumped(job[o], snapshot[o], features)
                /\ writes' = writes + 1
           ELSE UNCHANGED <<features, writes>>
        /\ op' = "dump"
        /\ UNCHANGED <<malformed, gitVars, fixes, pureVars, document, validation,
                       classVars, job, snapshot, loopVars>>

NextRace == Load \/ Dump

SpecRace == InitRace /\ [][NextRace]_vars

\* ------------------------------------------------------------------------
\* The classifier applied to items
\* ------------------------------------------------------------------------

\* n copies of an id: only the length of the list is looked at
Repeat(n) == [i \in 1..n |-> IdList[1]]

\* Items around every threshold of the score: an override that is absent,
\* recognized (in either case) or unknown; a category and a name of at most
\* one word; a description of keywords and of words that contain one, 39 or 40
\* characters long; 3 or 4 dependencies; 5 or 6 tests.
ClassifyInputs ==
    \E override \in {"", "high", "medium", "low", "HIGH", "huge"},
       category \in {{}, {"Auth"}, {"API"}, {"docs"}},
       name \in {{}, {"auth"}, {"api"}, {"refactor"}, {"simple"}, {"minor"}},
       words \in SUBSET {"token", "database", "typo", "author", "information"},
       len \in {39, 40}, deps \in {3, 4}, tests \in {5, 6} :
        feature_arg = [complexity |-> override, category |-> category, name |-> name,
                   description |-> [words |-> words, len |-> len],
                   dependencies |-> Repeat(deps), tests |-> Repeat(tests)]

InitClassify ==
    /\ ClassifyInputs
    /\ complexity_ret = ""
    /\ orchestrator_ret = ""
    /\ NoRace
    /\ document = NoDocument
    /\ validation = NoReport
    /\ features = <<>>
    /\ NoLedger
    /\ op = "input"
    /\ sorted_ret = NoSort
    /\ cycle_ret = <<>>
    /\ next_ret = None
    /\ skip_arg = FALSE
    /\ review_ret = <<>>
    /\ orchestrator_next_ret = NoSelection
    /\ fixes = 0
    /\ NoLoop

\* loop-runner.py, run_session, line 991
CallComplexity ==
    /\ complexity_ret = ""
    /\ complexity_ret' = get_feature_complexity(feature_arg)
    /\ op' = "get_feature_complexity"
    /\ UNCHANGED <<storeVars, gitVars, fixes, pureVars, document, validation, feature_arg,
                   orchestrator_ret, raceVars, loopVars>>

\* orchestrator.py, line 758
CallOrchestratorComplexity ==
    /\ orchestrator_ret = ""
    /\ orchestrator_ret' = orchestrator_get_feature_complexity(feature_arg)
    /\ op' = "orchestrator_get_feature_complexity"
    /\ UNCHANGED <<storeVars, gitVars, fixes, pureVars, document, validation, feature_arg,
                   complexity_ret, raceVars, loopVars>>

NextClassify == CallComplexity \/ CallOrchestratorComplexity

SpecClassify == InitClassify /\ [][NextClassify]_vars

\* ------------------------------------------------------------------------
\* Session loop (loop-runner.py, main, lines 1194-1365)
\* ------------------------------------------------------------------------

\* Stores that passed validation: two items, f10 unfinished, possibly
\* depending on f1, possibly of category qa or QA; f1 unfinished and possibly
\* awaiting review, or left both passed and blocked (the two flags do not
\* exclude each other in the data); f1 has the default priority and f10,
\* when it stands alone, priority 1 or the default.
LoopInputs ==
    \E dep \in {<<>>, <<IdList[1]>>}, cat \in Categories,
       prio \in {PInt(1), PAbsent}, rev \in BOOLEAN, done \in BOOLEAN :
        /\ dep # <<>> => prio = PAbsent
        /\ done => ~rev /\ prio = PAbsent /\ cat = "api"
        /\ features = MakeFeatures(2, <<PAbsent, prio>>, <<"api", cat>>,
                                   <<done, FALSE>>, <<done, FALSE>>, <<rev, FALSE>>,
                                   <<<<>>, dep>>)

\* The history a run starts with: empty, or (for the stores of unfinished
\* api items with default priorities) holding the completion commit of f1
\* that an interrupted earlier run made without updating the store.
LoopLedgers == {{}, {CommitMessage(IdList[1], FALSE)}}

\* feature_list.json as validation reads it: the items of the store with
\* the required fields each one lacks and its complexity value
AsRead(exists, json_ok, items, lacks, complexity) ==
    [exists |-> exists, json_ok |-> json_ok,
     items |-> [i \in 1..Len(items) |->
                   [id |-> items[i].id,
                    present |-> Range(REQUIRED_FIELDS) \ lacks[i],
                    priority |-> items[i].priority,
                    complexity |-> complexity[i],
                    dependencies |-> items[i].dependencies]]]

\* two unfinished api items with the given priorities and dependencies
PlainStore(prio, deps) ==
    MakeFeatures(2, prio, <<"api", "api">>, <<FALSE, FALSE>>, <<FALSE, FALSE>>,
                 <<FALSE, FALSE>>, deps)

\* Stores loop-runner.py can be started on that are not clean: one that
\* only draws warnings (string priorities, an unknown complexity, a dangling
\* dependency), and stores with one fatal error each (an item without a
\* name, a dependency cycle, no items, unparsable JSON, no file).
StartupInputs ==
    \/ /\ features = PlainStore(<<PStr, PStr>>, <<<<>>, <<IdList[3]>>>>)
       /\ malformed = FALSE
       /\ document = AsRead(TRUE, TRUE, features, <<{}, {}>>, <<"huge", "">>)
    \/ /\ features = PlainStore(<<PAbsent, PAbsent>>, <<<<>>, <<>>>>)
       /\ malformed = FALSE
       /\ document = AsRead(TRUE, TRUE, features, <<{}, {"name"}>>, <<"", "">>)
    \/ /\ features = PlainStore(<<PAbsent, PAbsent>>, <<<<IdList[2]>>, <<IdList[1]>>>>)
       /\ malformed = FALSE
       /\ document = AsRead(TRUE, TRUE, features, <<{}, {}>>, <<"", "">>)
    \/ /\ features = <<>>
       /\ malformed = FALSE
       /\ document = AsRead(TRUE, TRUE, features, <<>>, <<>>)
    \/ /\ features = PlainStore(<<PAbsent, PAbsent>>, <<<<>>, <<>>>>)
       /\ malformed = TRUE
       /\ document \in {AsRead(TRUE, FALSE, <<>>, <<>>, <<>>),
                         AsRead(FALSE, FALSE, <<>>, <<>>, <<>>)}

\* loop-runner.py validates the store before its loop (pc = "start");
\* orchestrator.py enters its loop without validation.
InitLoop ==
    /\ \/ /\ LoopInputs
          /\ malformed = FALSE
          /\ ledger \in LoopLedgers
          /\ ledger # {} => \A i \in 1..Len(features) :
                                /\ features[i].category = "api"
                                /\ features[i].priority = PAbsent
                                /\ ~features[i].passes
          /\ \/ /\ program = "loop-runner"
                /\ pc = "start"
                /\ document = AsRead(TRUE, TRUE, features, <<{}, {}>>, <<"", "">>)
                /\ interactive \in BOOLEAN
                /\ skip_review \in BOOLEAN
             \/ /\ program = "orchestrator"
                /\ pc = "top"
                /\ document = NoDocument
                /\ interactive = FALSE
                /\ skip_review = FALSE
       \/ /\ StartupInputs
          /\ ledger = {}
          /\ program = "loop-runner"
          /\ pc = "start"
          /\ interactive \in BOOLEAN
          /\ skip_review = FALSE
    /\ git_fail = {}
    /\ writes = 0
    /\ op = "input"
    /\ validation = NoReport
    /\ NoClassification
    /\ NoRace
    /\ sorted_ret = NoSort
    /\ cycle_ret = <<>>
    /\ next_ret = None
    /\ skip_arg = FALSE
    /\ review_ret = <<>>
    /\ orchestrator_next_ret = NoSelection
    /\ fixes = 0
    /\ session = 1
    /\ dispatches = 0
    /\ consecutive_failures = 0
    /\ status = NoStatus
    /\ new_status = NoStatus
    /\ dispatched = <<>>
    /\ outcome = "none"
    /\ tests_passed = FALSE
    /\ branch = "none"
    /\ auto_completed = <<>>
    /\ choice = "none"

\* a start that does not look at the validation report
starts_regardless(report) == TRUE

\* if not validation["valid"]: ... sys.exit(1)
may_start(report) == report.valid

\* lines 1115-1167: without a store file main exits with status 1; otherwise
\* the store is validated, and an invalid report ends the process with
\* status 1 before the loop; warnings are printed and the loop is entered.
Startup ==
    /\ program = "loop-runner"
    /\ pc = "start"
    /\ IF ~document.exists
       THEN pc' = "exit_1" /\ UNCHANGED validation
       ELSE LET report == validate_feature_list(document.exists, document.json_ok,
                                                document.items)
            IN  /\ validation' = report
                /\ pc' = IF may_start(report) THEN "top" ELSE "exit_1"
    /\ UNCHANGED <<storeVars, gitVars, fixes, op, pureVars, document, classVars, raceVars, program,
                   dispatches, interactive, skip_review, session, consecutive_failures,
                   status, new_status, dispatched, outcome, tests_passed, branch,
                   auto_completed, choice>>

\* lines 1197-1226: the loop condition, reconciliation, the terminal checks
\* and the selection
LoopTop ==
    /\ program = "loop-runner"
    /\ pc = "top"
    /\ choice' = "none"
    /\ IF ~within_budget(session)
       THEN /\ pc' = "max_sessions"
            /\ UNCHANGED <<storeVars, fixes, status>>
       ELSE LET r == sync_features_with_git(~malformed, features, ledger, git_fail)
                st == get_feature_status(~malformed, r.features)
                next_feat == get_next_feature(~malformed, r.features, skip_review)
            IN  /\ features' = r.features
                /\ fixes' = r.fixes
                /\ writes' = writes + (IF r.wrote THEN 1 ELSE 0)
                /\ status' = st
                /\ pc' = IF st.remaining = 0 THEN "all_completed"
                         ELSE IF st.remaining = st.blocked THEN "all_blocked"
                         ELSE IF next_feat = None THEN "no_next_feature"
                         ELSE "dispatch"
                /\ UNCHANGED malformed
    /\ UNCHANGED <<gitVars, op, pureVars, checkVars, program, dispatches, interactive, skip_review, session,
                   consecutive_failures, new_status, dispatched, outcome,
                   tests_passed, branch, auto_completed>>

\* how an executor call can end: subprocess.run returns (exit status zero or
\* not), and in run_session raises TimeoutExpired or another exception (the
\* executor could not be started: it did nothing)
Outcomes(is_interactive) ==
    IF is_interactive THEN {"exit_zero", "exit_nonzero"}
    ELSE {"exit_zero", "exit_nonzero", "timeout", "exception"}

\* lines 1228-1277: the item is selected again (main with
\* skip_needs_review=args.skip_review in interactive mode, run_session with
\* the default False otherwise), the executor runs, the status is read
Dispatch ==
    /\ program = "loop-runner"
    /\ pc = "dispatch"
    /\ LET feature == get_next_feature(~malformed, features,
                                       IF interactive THEN skip_review ELSE FALSE)
       IN  /\ dispatched' = feature.id
           /\ \E effect \in ExecutorEffects, out \in Outcomes(interactive) :
               /\ feature = None \/ out = "exception" => effect = "none"
               /\ effect = "append" => Len(features) < Len(IdList)
               /\ effect \in {"pass_and_commit", "commit_only"}
                      => Cardinality(ledger) < MaxLedger
               /\ features' = executor_store(effect, features, feature.id)
               /\ ledger' = executor_ledger(effect, ledger, feature.id)
               /\ malformed' = (effect = "corrupt")
               /\ outcome' = out
               /\ new_status' = get_feature_status(effect # "corrupt",
                                    executor_store(effect, features, feature.id))
    /\ pc' = "verify"
    /\ dispatches' = dispatches + 1
    /\ UNCHANGED <<writes, git_fail, fixes, op, pureVars, checkVars, program, interactive,
                   skip_review, session, consecutive_failures, status, tests_passed,
                   branch, auto_completed, choice>>

\* lines 1279-1354: the independent test run and the progress evaluation;
\* how the executor call ended is not looked at (the return value of
\* run_session is dropped at line 1267).
\* In non-interactive mode main never assigns its local "feature", so the
\* branches that read it (lines 1289, 1296, 1349, 1353) end the process with
\* UnboundLocalError.  The auto-completion writes the store and commits
\* inside a try block: when the write raises, the store is as it was.
Evaluate ==
    /\ program = "loop-runner"
    /\ pc = "verify"
    /\ LET features_added == new_status.total - status.total
           current_feature == get_next_feature(~malformed, features, FALSE)
           marked == set_flag(features, current_feature.id, "passes")
       IN  \E passed \in BOOLEAN, write_ok \in BOOLEAN :
             LET taken ==
                     IF new_status.completed > status.completed THEN "completed"
                     ELSE IF features_added > 0 THEN "features_added"
                     ELSE IF passed /\ current_feature # None
                     THEN (IF is_qa_feature(current_feature) THEN "qa_awaiting_explicit"
                           ELSE IF write_ok THEN "auto_completed"
                           ELSE "auto_complete_failed")
                     ELSE "no_progress"
                 reads_feature ==
                     taken \in {"completed", "features_added", "no_progress"}
             IN  /\ taken # "auto_complete_failed" => write_ok
                 /\ tests_passed' = passed
                 /\ branch' = taken
                 /\ IF reads_feature /\ ~interactive
                    THEN /\ pc' = "crashed"
                         /\ UNCHANGED <<storeVars, ledger, consecutive_failures,
                                        new_status, auto_completed>>
                    ELSE /\ pc' = "escalation"
                         /\ consecutive_failures' =
                                counter_after(taken, consecutive_failures)
                         /\ IF taken = "auto_completed"
                            THEN /\ features' = marked
                                 /\ writes' = writes + 1
                                 /\ ledger' =
                                        IF Cardinality(ledger) < MaxLedger
                                        THEN ledger \cup
                                                 {CommitMessage(current_feature.id, TRUE)}
                                        ELSE ledger
                                 /\ auto_completed' = current_feature.id
                                 /\ new_status' = get_feature_status(TRUE, marked)
                                 /\ UNCHANGED malformed
                            ELSE UNCHANGED <<storeVars, ledger, new_status,
                                             auto_completed>>
    /\ outcome' = "none"
    /\ UNCHANGED <<git_fail, fixes, op, pureVars, checkVars, program, dispatches, interactive, skip_review,
                   session, status, dispatched, choice>>

\* what the end of an iteration forgets: the locals the next pass overwrites
EndIteration ==
    /\ dispatched' = <<>>
    /\ tests_passed' = FALSE
    /\ branch' = "none"
    /\ auto_completed' = <<>>
    /\ status' = NoStatus
    /\ new_status' = NoStatus

\* lines 1356-1365: the escalation check and the step to the next iteration
CheckEscalation ==
    /\ program = "loop-runner"
    /\ pc = "escalation"
    /\ IF escalation_due(consecutive_failures)
       THEN \E answer \in {"y", "n"} :
               /\ choice' = answer
               /\ IF answer = "y"
                  THEN /\ consecutive_failures' = 0
                       /\ session' = session + 1
                       /\ pc' = "top"
                  ELSE /\ pc' = "aborted"
                       /\ UNCHANGED <<consecutive_failures, session>>
       ELSE /\ session' = session + 1
            /\ pc' = "top"
            /\ UNCHANGED <<consecutive_failures, choice>>
    /\ EndIteration
    /\ UNCHANGED <<storeVars, gitVars, fixes, op, pureVars, checkVars, program, dispatches, interactive,
                   skip_review, outcome>>

\* ------------------------------------------------------------------------
\* Implementation loop of orchestrator.py (orchestrate_implementation,
\* lines 1061-1135).  Its sync_features_with_git (418-446) and
\* get_feature_status (382-405) repeat those of loop-runner.py.
\* ------------------------------------------------------------------------

\* lines 1068-1093: the loop condition, reconciliation, the terminal checks
\* and the selection, whose TypeError nothing catches
OrchestrateTop ==
    /\ program = "orchestrator"
    /\ pc = "top"
    /\ choice' = "none"
    /\ IF session > MaxSessions
       THEN /\ pc' = "max_sessions"
            /\ UNCHANGED <<storeVars, fixes, status, dispatched>>
       ELSE LET r == sync_features_with_git(~malformed, features, ledger, git_fail)
                st == get_feature_status(~malformed, r.features)
                feature == orchestrator_get_next_feature(~malformed, r.features)
            IN  /\ features' = r.features
                /\ fixes' = r.fixes
                /\ writes' = writes + (IF r.wrote THEN 1 ELSE 0)
                /\ status' = st
                /\ pc' = IF st.remaining = 0 THEN "all_completed"
                         ELSE IF st.remaining = st.blocked THEN "all_blocked"
                         ELSE IF ~feature.ok THEN "crashed"
                         ELSE IF feature.val = None THEN "no_next_feature"
                         ELSE "dispatch"
                /\ dispatched' = IF st.remaining = 0 \/ st.remaining = st.blocked
                                 THEN <<>> ELSE feature.val.id
                /\ UNCHANGED malformed
    /\ UNCHANGED <<gitVars, op, pureVars, checkVars, program, dispatches, interactive, skip_review, session,
                   consecutive_failures, new_status, outcome, tests_passed, branch,
                   auto_completed>>

\* lines 1095-1103: the executor works on the selected item, the status is
\* read again
OrchestrateDispatch ==
    /\ program = "orchestrator"
    /\ pc = "dispatch"
    /\ \E effect \in ExecutorEffects, out \in {"exit_zero", "exit_nonzero"} :
        /\ effect = "append" => Len(features) < Len(IdList)
        /\ effect \in {"pass_and_commit", "commit_only"}
               => Cardinality(ledger) < MaxLedger
        /\ features' = executor_store(effect, features, dispatched)
        /\ ledger' = executor_ledger(effect, ledger, dispatched)
        /\ malformed' = (effect = "corrupt")
        /\ outcome' = out
        /\ new_status' = get_feature_status(effect # "corrupt",
                             executor_store(effect, features, dispatched))
    /\ pc' = "verify"
    /\ dispatches' = dispatches + 1
    /\ UNCHANGED <<writes, git_fail, fixes, op, pureVars, checkVars, program, interactive,
                   skip_review, session, consecutive_failures, status, dispatched,
                   tests_passed, branch, auto_completed, choice>>

\* lines 1105-1110: progress is a larger completed count, nothing else
OrchestrateEvaluate ==
    /\ program = "orchestrator"
    /\ pc = "verify"
    /\ IF new_status.completed > status.completed
       THEN branch' = "completed" /\ consecutive_failures' = 0
       ELSE branch' = "not_completed" /\ consecutive_failures' = consecutive_failures + 1
    /\ pc' = "escalation"
    /\ outcome' = "none"
    /\ UNCHANGED <<storeVars, gitVars, fixes, op, pureVars, checkVars, program, dispatches, interactive,
                   skip_review, session, status, new_status, dispatched,
                   tests_passed, auto_completed, choice>>

\* lines 1112-1121: the escalation check and the step to the next iteration
OrchestrateEscalation ==
    /\ program = "orchestrator"
    /\ pc = "escalation"
    /\ IF consecutive_failures >= max_consecutive_failures
       THEN \E answer \in {"y", "n"} :
               /\ choice' = answer
               /\ IF answer = "y"
                  THEN /\ consecutive_failures' = 0
                       /\ session' = session + 1
                       /\ pc' = "top"
                  ELSE /\ pc' = "aborted"
                       /\ UNCHANGED <<consecutive_failures, session>>
       ELSE /\ session' = session + 1
            /\ pc' = "top"
            /\ UNCHANGED <<consecutive_failures, choice>>
    /\ EndIteration
    /\ UNCHANGED <<storeVars, gitVars, fixes, op, pureVars, checkVars, program, dispatches, interactive,
                   skip_review, outcome>>

Next ==
    \/ Startup
    \/ LoopTop
    \/ Dispatch
    \/ Evaluate
    \/ CheckEscalation
    \/ OrchestrateTop
    \/ OrchestrateDispatch
    \/ OrchestrateEvaluate
    \/ OrchestrateEscalation

Spec == InitLoop /\ [][Next]_vars

\* where a session loop can be
ProgramPoints ==
    {"start", "exit_1", "top", "dispatch", "verify", "escalation", "all_completed", "all_blocked",
     "no_next_feature", "max_sessions", "aborted", "crashed"}

\* the loop has ended: one of the break statements, the loop condition, or
\* an exception that left main
Terminated ==
    pc \in {"exit_1", "all_completed", "all_blocked", "no_next_feature", "max_sessions",
            "aborted", "crashed"}

\* the call the loop is waiting for (reconciliation, executor, test run,
\* prompt) returns and control moves on
Returns == ~Terminated /\ \E p \in ProgramPoints \ {pc} : pc' = p

\* Every call the loop waits for returns: a loop that has not ended does not
\* stay at one point forever.  Every step of Next changes pc, and Next is
\* enabled wherever the loop has not ended, so this is weak fairness of Next.
SpecLive == InitLoop /\ [][Next]_vars /\ WF_pc(Returns)

\* ------------------------------------------------------------------------
\* Notions the properties are stated with
\* ------------------------------------------------------------------------

IdsOf(fs) == {fs[i].id : i \in 1..Len(fs)}

UniqueIds(fs) == \A i, j \in 1..Len(fs) : fs[i].id = fs[j].id => i = j

\* the ids x directly depends on, among the ids of the collection
DirectDeps(fs, x) ==
    UNION {Range(fs[i].dependencies) \cap IdsOf(fs) : i \in {j \in 1..Len(fs) : fs[j].id = x}}

\* the ids reachable from the set S along dependencies, in one step or more
RECURSIVE ReachableFrom(_, _, _)
ReachableFrom(fs, S, seen) ==
    LET step == UNION {DirectDeps(fs, x) : x \in S}
    IN  IF step \subseteq seen THEN seen
        ELSE ReachableFrom(fs, step \ seen, seen \cup step)

HasCycle(fs) == \E x \in IdsOf(fs) : x \in ReachableFrom(fs, {x}, {})

\* order holds each item of fs exactly once
IsArrangementOf(order, fs) ==
    /\ Len(order) = Len(fs)
    /\ \A i \in 1..Len(fs) : Cardinality({j \in 1..Len(order) : order[j] = fs[i]}) = 1

\* every dependency that is in the collection stands before its dependent
DependenciesFirst(order) ==
    \A i, j \in 1..Len(order) :
        order[j].id \in Range(order[i].dependencies) => j < i

\* the comparison of sorted() is defined for every pair of priorities
ComparablePriorities(fs) ==
    \A i, j \in 1..Len(fs) : priority_key(fs[i]).kind = priority_key(fs[j]).kind

\* ------------------------------------------------------------------------
\* Properties of the dependency graph (SpecGraph)
\* ------------------------------------------------------------------------

\* C1: for a collection with unique ids and acyclic dependencies,
\* topological_sort_features returns a list holding each item exactly once
\* in which every dependency of the collection precedes its dependent.
C1_SortIsDependencyOrder ==
    (op = "topological_sort_features" /\ UniqueIds(features) /\ ~HasCycle(features))
        => /\ sorted_ret.ok
           /\ IsArrangementOf(sorted_ret.val, features)
           /\ DependenciesFirst(sorted_ret.val)

\* The order property of C1 on the collections whose priorities sorted() can
\* compare (all numeric or absent, or all strings).
SortIsDependencyOrderWhenComparable ==
    (/\ op = "topological_sort_features"
     /\ UniqueIds(features) /\ ~HasCycle(features)
     /\ ComparablePriorities(features))
        => /\ sorted_ret.ok
           /\ IsArrangementOf(sorted_ret.val, features)
           /\ DependenciesFirst(sorted_ret.val)

\* C3: detect_circular_dependencies returns a non-empty path if and only if
\* the dependency relation of the collection has a cycle, wherever in the
\* collection the cycle lies.
C3_CycleDetectedIffCyclic ==
    op = "detect_circular_dependencies"
        => ((cycle_ret # <<>>) <=> HasCycle(features))

\* a cycle is reported that no dependency path from the first item reaches
C3_Witness ==
    /\ op = "detect_circular_dependencies"
    /\ cycle_ret # <<>>
    /\ Len(features) >= 2
    /\ LET fromFirst == ReachableFrom(features, {features[1].id}, {}) \cup {features[1].id}
       IN  Range(cycle_ret) \cap fromFirst = {}

\* ------------------------------------------------------------------------
\* Properties of the scheduler (SpecSelect)
\* ------------------------------------------------------------------------

\* the selection predicate as the claim words it
Selectable(fs, f, skipReview) ==
    /\ f.passes = FALSE
    /\ f.blocked = FALSE
    /\ \A d \in Range(f.dependencies) : \E i \in 1..Len(fs) : fs[i].id = d /\ fs[i].passes
    /\ skipReview => f.needs_review = FALSE

\* C2: get_next_feature returns the first item of the computed dependency
\* order that is unfinished, unblocked, has every dependency passed (and is
\* not awaiting review when skipReview is set), and returns none exactly
\* when no item of the store satisfies that.
C2_SelectsFirstEligible ==
    op = "get_next_feature"
        => /\ (next_ret = None) <=>
                  ~\E i \in 1..Len(features) : Selectable(features, features[i], skip_arg)
           /\ next_ret # None =>
                  LET order == topological_sort_features(features).val
                      at == Index(order, next_ret)
                  IN  /\ next_ret \in Range(order)
                      /\ Selectable(features, next_ret, skip_arg)
                      /\ \A k \in 1..(at - 1) : ~Selectable(features, order[k], skip_arg)

\* The safety half of C2: an item that is returned is unfinished, unblocked
\* and has no declared dependency whose passes is false.
SelectedIsEligible ==
    (op = "get_next_feature" /\ next_ret # None)
        => Selectable(features, next_ret, skip_arg)

\* ------------------------------------------------------------------------
\* Properties of reconciliation (SpecSync)
\* ------------------------------------------------------------------------

IdChars == UNION {Range(x) : x \in Ids}

\* msg holds the completion marker of exactly the id x: the marker text and
\* x, followed by the end of the message or by something that is no part of
\* an id
NamesExactly(msg, x) ==
    LET pattern == <<MarkerText>> \o x
    IN  \E k \in 0..(Len(msg) - Len(pattern)) :
            /\ SubSeq(msg, k + 1, k + Len(pattern)) = pattern
            /\ (k + Len(pattern) = Len(msg) \/ msg[k + Len(pattern) + 1] \notin IdChars)

SyncStep == op' = "sync_features_with_git"

\* C4: reconciliation marks an unfinished item passed only if the history
\* holds a completion marker naming exactly that item's id; the marker of
\* another id that contains it never does.
C4_ExactIdMatch ==
    [][SyncStep =>
          \A i \in 1..Len(features) :
              (~features[i].passes /\ features'[i].passes)
                  => \E msg \in ledger : NamesExactly(msg, features[i].id)]_vars

\* C5: a call writes the store at most once and only when it changed an
\* item; a call that directly follows another call, the history unchanged
\* in between, returns 0, changes no item and does not write.
C5_SyncIdempotent ==
    [][SyncStep =>
          /\ writes' \in {writes, writes + 1}
          /\ writes' # writes => features' # features
          /\ op = "sync_features_with_git"
                 => (fixes' = 0 /\ features' = features /\ writes' = writes)]_vars

\* a call has fixed something and written once, and a later call returned 0
C5_Witness ==
    /\ op = "sync_features_with_git"
    /\ fixes = 0
    /\ writes = 1
    /\ \E i \in 1..Len(features) :
           features[i].passes /\ is_feature_in_git_history(ledger, git_fail, features[i].id)

\* C6: reconciliation never changes passes from true to false; it changes
\* nothing else than passes, from false to true.
C6_SyncMonotonic ==
    [][SyncStep =>
          /\ Len(features') = Len(features)
          /\ \A i \in 1..Len(features) :
                 /\ features[i].passes => features'[i].passes
                 /\ [features'[i] EXCEPT !.passes = features[i].passes] = features[i]]_vars

\* a call has fixed an item while an item without any marker stays passed
C6_Witness ==
    /\ op = "sync_features_with_git"
    /\ fixes > 0
    /\ \E i \in 1..Len(features) :
           features[i].passes /\ ~is_feature_in_git_history(ledger, {}, features[i].id)

\* ------------------------------------------------------------------------
\* Session loop properties
\* ------------------------------------------------------------------------

\* a review-gate item as the specification words it: category qa (in
\* either letter case of the model) or an id that starts with "qa-"
ReviewGate(feat) ==
    \/ feat.category \in {"qa", "QA"}
    \/ Len(feat.id) >= 3 /\ SubSeq(feat.id, 1, 3) = <<"q", "a", "-">>

\* the items a step turns from not passed to passed
NewlyPassed == {i \in 1..Len(features) : ~features[i].passes /\ features'[i].passes}

\* a step of the progress evaluation of loop-runner.py that reaches the
\* escalation check
EvaluationStep == program = "loop-runner" /\ pc = "verify" /\ pc' = "escalation"

\* C7: in every run of the session loop the auto-completion step (the only
\* store write of the progress evaluation) never sets passes on an item
\* whose category is qa or whose id starts with "qa-", whatever the
\* executor did and whatever the test run reported.
C7_AutoCompletionSkipsReviewGates ==
    [][pc = "verify" =>
          \A i \in NewlyPassed : ~ReviewGate(features[i])]_vars

\* the tests passed on an iteration without progress while the item next in
\* line was a review gate recognised by its id alone: nothing was marked
C7_Witness ==
    /\ program = "loop-runner"
    /\ pc = "escalation"
    /\ tests_passed
    /\ branch = "qa_awaiting_explicit"
    /\ \E i \in 1..Len(features) :
           /\ features[i].id = dispatched
           /\ features[i].category = "api"
           /\ ReviewGate(features[i])
           /\ ~features[i].passes

\* C8: on an iteration without detected progress whose test run succeeds,
\* the item the auto-completion marks passed is the item dispatched in that
\* iteration and no other, and the counter is reset to 0.
C8_AutoCompletesDispatchedItem ==
    [][EvaluationStep /\ NewlyPassed # {} =>
          /\ \A i \in NewlyPassed : features[i].id = dispatched
          /\ consecutive_failures' = 0]_vars

\* the evidence of progress the loop looks at, and a store item newly
\* passed by the evaluation itself (a successful auto-completion)
ShowedProgress ==
    \/ new_status.completed > status.completed
    \/ new_status.total - status.total > 0
    \/ NewlyPassed # {}

\* C9: every completed iteration of loop-runner.py sets the counter to 0 if
\* it showed progress and otherwise adds exactly 1 to it, and no step before
\* the escalation check changes the counter in any other way.
C9_CounterFollowsProgress ==
    [][/\ EvaluationStep =>
              consecutive_failures' =
                  IF ShowedProgress THEN 0 ELSE consecutive_failures + 1
       /\ program = "loop-runner" /\ pc \in {"top", "dispatch"} =>
              consecutive_failures' = consecutive_failures
       /\ program = "loop-runner" /\ pc = "verify" /\ pc' # "escalation" =>
              consecutive_failures' = consecutive_failures]_vars

\* after two iterations without progress, appended items reset the counter
C9_Witness ==
    /\ program = "loop-runner"
    /\ pc = "escalation"
    /\ session = 3
    /\ branch = "features_added"
    /\ consecutive_failures = 0
    /\ Len(features) = 3

\* C10: three consecutive iterations without progress stop either loop for
\* a decision before a fourth dispatch: "y" resets the counter to 0 and the
\* loop goes on, any other answer ends the loop with no further dispatch;
\* hence the counter is in 0..2 whenever an iteration starts, dispatches or
\* evaluates.
C10_EscalationGate ==
    /\ [](pc \in {"top", "dispatch", "verify"} => consecutive_failures \in 0..2)
    /\ [][pc = "escalation" /\ consecutive_failures >= 3 =>
              \/ choice' = "y" /\ consecutive_failures' = 0 /\ pc' = "top"
                     /\ session' = session + 1
              \/ choice' # "y" /\ pc' = "aborted"]_vars
    /\ [][pc = "aborted" => pc' = "aborted"]_vars

\* the answer "y" after three iterations without progress: the fourth
\* iteration is about to start with the counter at 0
C10_Witness ==
    /\ pc = "top"
    /\ choice = "y"
    /\ session = FailureThreshold + 1
    /\ consecutive_failures = 0

\* ------------------------------------------------------------------------
\* Review gating, terminal conditions and failure handling
\* ------------------------------------------------------------------------

\* the item of the store with the given id is awaiting review
AwaitsReview(x) ==
    \E i \in 1..Len(features) : features[i].id = x /\ features[i].needs_review

\* C11: with --skip-review set, the session loop never hands an item whose
\* needs_review is true to the executor and never auto-completes one.
C11_SkipReviewWithholds ==
    (program = "loop-runner" /\ skip_review)
        => ~AwaitsReview(dispatched) /\ ~AwaitsReview(auto_completed)

\* an item Q of the store that awaits review and is otherwise selectable
HasReviewCandidate ==
    \E i \in 1..Len(features) :
        features[i].needs_review /\ Selectable(features, features[i], FALSE)

\* C12: with an item Q awaiting review that is unfinished, unblocked and has
\* its dependencies passed, get_next_feature with skipReview = true never
\* returns an item awaiting review: it returns the first item of the order
\* that is selectable once review items are left out, or none when there is
\* no such item (with skipReview = false Q itself can be returned).
C12_SkipReviewSelection ==
    (op = "get_next_feature" /\ skip_arg /\ HasReviewCandidate)
        => /\ ~next_ret.needs_review
           /\ (next_ret = None) <=>
                  ~\E i \in 1..Len(features) : Selectable(features, features[i], TRUE)
           /\ next_ret # None =>
                  LET order == topological_sort_features(features).val
                  IN  /\ next_ret \in Range(order)
                      /\ \A k \in 1..(Index(order, next_ret) - 1) :
                             ~Selectable(features, order[k], TRUE)

\* The part of C12 that does not depend on the priorities: what is returned
\* with skipReview = true never awaits review, and Q is returned with
\* skipReview = false only if it is selectable.
SkipReviewNeverReturnsReviewItem ==
    op = "get_next_feature"
        => /\ skip_arg => ~next_ret.needs_review
           /\ next_ret # None => Selectable(features, next_ret, skip_arg)

\* the unfinished items of the store
Unfinished == {i \in 1..Len(features) : ~features[i].passes}

\* C13: the loop stops as "all completed" only when the store, as read at
\* the top of the iteration after reconciliation, is readable and holds no
\* item with passes = false.
C13_SuccessOnlyWhenAllPassed ==
    (program = "loop-runner" /\ pc = "all_completed")
        => ~malformed /\ Unfinished = {}

\* at least one item is unfinished and every unfinished item is blocked
AllUnfinishedBlocked ==
    Unfinished # {} /\ \A i \in Unfinished : features[i].blocked

\* C14: the loop stops as "all blocked" exactly when, at the top of an
\* iteration, some item is unfinished and every unfinished item is blocked:
\* it never stops so while an unfinished unblocked item exists, and never
\* goes on to the selection when all unfinished items are blocked.
C14_BlockedTerminalExact ==
    program = "loop-runner"
        => /\ pc = "all_blocked" => AllUnfinishedBlocked
           /\ pc \in {"dispatch", "no_next_feature"} => ~AllUnfinishedBlocked

\* C15: when the loop stops because the selection returned none while
\* unfinished, unblocked items exist, all of those items await review.
C15_NoSelectionMeansReviewPending ==
    (program = "loop-runner" /\ pc = "no_next_feature")
        => \A i \in Unfinished : ~features[i].blocked => features[i].needs_review

\* C16: the session loop always terminates when every call it waits for
\* returns; one invocation performs at most max_sessions dispatches, and once
\* the iteration counter exceeds max_sessions nothing is reconciled,
\* selected or dispatched any more.
C16_LoopTerminatesWithinBudget ==
    /\ <>Terminated
    /\ [](program = "loop-runner" => dispatches <= MaxSessions)
    /\ [][program = "loop-runner" /\ session > MaxSessions =>
              /\ pc' \in {pc, "max_sessions"}
              /\ UNCHANGED <<storeVars, gitVars, fixes, status, dispatches, dispatched>>]_vars

\* the budget is used up: max_sessions dispatches were made and the loop
\* has ended on its loop condition
C16_Witness ==
    /\ program = "loop-runner"
    /\ pc = "max_sessions"
    /\ dispatches = MaxSessions
    /\ session = MaxSessions + 1

\* C17: however the executor call of an iteration ends (exit status zero or
\* not, timeout, exception), the iteration is not fatal in either mode: the
\* evaluation leads to the escalation check, and unless the escalation
\* stops the loop the next iteration starts.
C17_DispatchOutcomeNotFatal ==
    /\ [][program = "loop-runner" /\ pc = "verify" => pc' = "escalation"]_vars
    /\ [][program = "loop-runner" /\ pc = "escalation"
              /\ ~escalation_due(consecutive_failures) => pc' = "top"]_vars

\* the executor call of this iteration did not end with exit status zero
DispatchFailed == outcome \in {"exit_nonzero", "timeout", "exception"}

\* the dispatch changed neither the completed count nor the size of the store
DispatchChangedNothing ==
    /\ new_status.completed = status.completed
    /\ new_status.total = status.total

\* the item dispatched in this iteration is marked passed by this step
DispatchedNewlyPassed == \E i \in NewlyPassed : features[i].id = dispatched

\* C18: an iteration whose executor call timed out, raised or exited
\* non-zero is a failed attempt: when the dispatch left the completed count
\* and the store size unchanged, the evaluation of that iteration adds 1 to
\* the counter and does not mark the dispatched item passed.
C18_FailedDispatchIsFailedAttempt ==
    [][(EvaluationStep /\ DispatchFailed /\ DispatchChangedNothing)
          => /\ consecutive_failures' = consecutive_failures + 1
             /\ ~DispatchedNewlyPassed]_vars

\* the item dispatched in this iteration is passed in the store
DispatchedItemPassed ==
    \E i \in 1..Len(features) : features[i].id = dispatched /\ features[i].passes

\* C19: when the test run of an iteration fails, the item dispatched in it
\* is not passed after the evaluation, and unless items were added the
\* counter is not reset but grows by 1.
C19_TestFailureLeavesItemIncomplete ==
    [][(EvaluationStep /\ ~tests_passed')
          => /\ ~DispatchedItemPassed'
             /\ new_status.total <= status.total
                    => consecutive_failures' = consecutive_failures + 1]_vars

\* the ledger holds a completion commit for exactly this id
RecordedInLedger(x) == \E auto \in BOOLEAN : CommitMessage(x, auto) \in ledger

\* the terminal checks and the selection of the current iteration are done
SelectionMade == pc \in {"all_completed", "all_blocked", "no_next_feature", "dispatch"}

\* C20: in both loops every iteration, the first included, reconciles the
\* store with the ledger before its terminal checks and its selection: when
\* these are done on a readable store, every item whose completion the ledger
\* records is passed in the store, and the item selected is not such an item.
C20_ReconciledBeforeSelection ==
    (SelectionMade /\ ~malformed)
        => /\ \A i \in 1..Len(features) :
                  RecordedInLedger(features[i].id) => features[i].passes
           /\ pc = "dispatch" /\ program = "orchestrator"
                  => ~RecordedInLedger(dispatched)

\* the first iteration of a run found a completion that only the ledger
\* recorded, marked the item in the store and selected another one
C20_Witness ==
    /\ pc = "dispatch"
    /\ session = 1
    /\ dispatches = 0
    /\ fixes = 1
    /\ RecordedInLedger(features[1].id)
    /\ features[1].passes
    /\ ~malformed

\* ------------------------------------------------------------------------
\* Validation, store writes and classification
\* ------------------------------------------------------------------------

\* the items that carry an id
WithId(items) == {i \in 1..Len(items) : "id" \in items[i].present}

\* what makes a store file unusable: it is absent, it does not parse, it
\* holds no item, an item lacks a required field, two items carry the same
\* id, or the dependencies form a cycle
FatalErrorPresent(doc) ==
    \/ ~doc.exists
    \/ ~doc.json_ok
    \/ doc.items = <<>>
    \/ \E i \in 1..Len(doc.items) : doc.items[i].present # Range(REQUIRED_FIELDS)
    \/ \E i, j \in WithId(doc.items) : i # j /\ doc.items[i].id = doc.items[j].id
    \/ HasCycle(doc.items)

\* C21: validate_feature_list reports valid = false if and only if a fatal
\* error is present (file absent, malformed JSON, no items, an item missing
\* id, name or description, a duplicate id, a dependency cycle); warnings
\* alone never make the report invalid, and valid = false always comes with
\* a non-empty errors list.
C21_InvalidIffFatalError ==
    op = "validate_feature_list"
        => /\ ~validation.valid <=> FatalErrorPresent(document)
           /\ ~validation.valid <=> validation.errors # <<>>

\* a file with all three kinds of warning and no fatal error is valid
C21_Witness ==
    /\ op = "validate_feature_list"
    /\ validation.valid
    /\ {validation.warnings[k][1] : k \in 1..Len(validation.warnings)}
           = {"priority", "complexity", "unknown_dependency"}

\* the loop of loop-runner.py has done nothing: no reconciliation, no
\* status, no selection, no dispatch, no auto-completion, no store write
LoopUntouched ==
    /\ writes = 0
    /\ fixes = 0
    /\ dispatches = 0
    /\ status = NoStatus
    /\ dispatched = <<>>
    /\ auto_completed = <<>>
    /\ session = 1

C23_WritesAtomic == [][~malformed => ~malformed']_vars

\* C24: an operation that finds the store file unparsable (reconcile,
\* mark-blocked, unblock, selection, status, auto-completion) fails or
\* returns its empty result and writes nothing: the file is left as it was.
C24_UnreadableStoreNotWritten ==
    [][malformed =>
          /\ UNCHANGED <<features, malformed, writes>>
          /\ op' = "sync_features_with_git" => fixes' = 0
          /\ op' = "get_next_feature" => next_ret' = None
          /\ op' = "get_feature_status" => status' = NoStatus]_vars

\* the auto-completion write was attempted on an unparsable file that holds
\* an unfinished item, and nothing was written
C24_Witness ==
    /\ malformed
    /\ op = "auto_complete"
    /\ writes = 0
    /\ \E i \in 1..Len(features) : ~features[i].passes /\ ~features[i].blocked

\* ids and dependencies of the items, position by position
Skeleton(fs) == [i \in 1..Len(fs) |-> <<fs[i].id, fs[i].dependencies>>]

\* C28: no engine operation (reconcile, mark-blocked, unblock,
\* auto-completion, selection, status) removes an item or changes an item's
\* id or dependencies.
C28_ItemsAndDependenciesKept ==
    [][Skeleton(features') = Skeleton(features)]_vars

\* writes have been made to a store whose items carry dependencies, and an
\* unblock was the last of them
C28_Witness ==
    /\ op = "unblock_feature"
    /\ writes = MaxWrites
    /\ ~malformed
    /\ \E i \in 1..Len(features) :
           features[i].dependencies # <<>> /\ ~features[i].blocked

\* the history holds a commit that the query for this id would select
HasEvidence(x) == \E msg \in ledger : Contains(msg, <<MarkerText>> \o x)

\* C25: when the history query for an item fails, reconciliation treats
\* the item as having no evidence (its passes stays false), goes on to
\* reconcile the other items as if nothing had failed, and returns its count.
C25_QueryFailureIsNoEvidence ==
    [][(SyncStep /\ ~malformed) =>
          /\ \A i \in 1..Len(features) :
                 ~features[i].passes =>
                     features'[i].passes =
                         (features[i].id \notin git_fail /\ HasEvidence(features[i].id))
          /\ fixes' = Cardinality(NewlyPassed)]_vars

\* one call left an item unfinished whose query failed although the history
\* records it, and fixed another item
C25_Witness ==
    /\ op = "sync_features_with_git"
    /\ fixes = 1
    /\ \E i \in 1..Len(features) :
           /\ features[i].id \in git_fail
           /\ HasEvidence(features[i].id)
           /\ ~features[i].passes

Tiers == {"high", "medium", "low"}

\* the score the item would get from its text and counts: high-risk keywords,
\* more than 3 dependencies, more than 5 tests
ScoresHigh(feat) ==
    /\ \E w \in feat.description.words \cup feat.category \cup feat.name :
           \E k \in high_keywords : occurs_in(k, Lower(w))
    /\ Len(feat.dependencies) > 3
    /\ Len(feat.tests) > 5

\* C26: get_feature_complexity (both copies) returns the item's complexity
\* override whenever it is one of high, medium, low, whatever the keywords,
\* the numbers of dependencies and tests, the name and the description are.
C26_OverrideWins ==
    feature_arg.complexity \in Tiers
        => /\ complexity_ret # "" => complexity_ret = feature_arg.complexity
           /\ orchestrator_ret # ""
                  => orchestrator_ret = feature_arg.complexity

\* both copies returned the override low for an item whose text and counts
\* score high
C26_Witness ==
    /\ feature_arg.complexity = "low"
    /\ ScoresHigh(feature_arg)
    /\ complexity_ret = "low"
    /\ orchestrator_ret = "low"

\* 1 if the condition holds, else 0
Term(b) == IF b THEN 1 ELSE 0

\* a word of the text, lower-cased, is one of the keywords
Mentions(text, keywords) ==
    \E w \in text, k \in keywords : occurs_in(k, Lower(w))

Score(feat) ==
    LET d == feat.description.words
        c == feat.category
        n == feat.name
    IN  2 * Term(Mentions(d \cup c \cup n, high_keywords))
        + Term(Len(feat.dependencies) > 3)
        + Term(Len(feat.tests) > 5)
        + Term(Mentions(d \cup c, medium_keywords))
        - 2 * Term(Mentions(d \cup c \cup n, low_keywords))
        - Term(Mentions(n, {"simple", "minor"}))
        - Term(feat.description.len < 40)

TierOf(score) == IF score >= 3 THEN "high" ELSE IF score <= 0 THEN "low" ELSE "medium"

\* C27: without a recognized override the classifier returns the tier of
\* the score (+2 high-risk keyword in description, category or name; +1 more
\* than 3 dependencies; +1 more than 5 tests; +1 medium-risk keyword in
\* description or category; -2 low-risk keyword in description, category or
\* name; -1 simple or minor in the name; -1 description shorter than 40
\* characters; each at most once; high from 3, low up to 0, else medium), and
\* the copies in loop-runner.py and orchestrator.py return the same tier for
\* every item.
C27_ScoreAndCopiesAgree ==
    /\ (complexity_ret # "" /\ Lower(feature_arg.complexity) \notin Tiers)
           => complexity_ret = TierOf(Score(feature_arg))
    /\ (complexity_ret # "" /\ orchestrator_ret # "")
           => complexity_ret = orchestrator_ret

\* both copies returned medium for an item without override whose name,
\* but neither description nor category, holds a medium-risk keyword
C27_Witness ==
    /\ feature_arg.complexity = ""
    /\ feature_arg.name = {"api"}
    /\ ~Mentions(feature_arg.description.words \cup feature_arg.category, medium_keywords)
    /\ complexity_ret = "medium"
    /\ orchestrator_ret = "medium"

\* a review-gated item that is unfinished, not blocked, and whose declared
\* dependencies all are ids of passed items
PendingReview(fs, f) ==
    /\ f.needs_review
    /\ ~f.passes
    /\ ~f.blocked
    /\ \A k \in 1..Len(f.dependencies) :
           \E j \in 1..Len(fs) : fs[j].passes /\ fs[j].id = f.dependencies[k]

DependencyPositions(fs, f) ==
    {j \in 1..Len(fs) : \E k \in 1..Len(f.dependencies) : f.dependencies[k] = fs[j].id}

\* The wave of the item at position i: wave 1 holds the items without a
\* dependency in the collection, wave k + 1 the items whose dependencies all
\* lie in the waves up to k and at least one in wave k; 0 for an item no
\* wave ever takes (it is on or behind a cycle).
RECURSIVE WaveFrom(_, _, _, _)
WaveFrom(fs, placed, k, i) ==
    LET ready == {j \in (1..Len(fs)) \ placed : DependencyPositions(fs, fs[j]) \subseteq placed}
    IN  IF ready = {} THEN 0
        ELSE IF i \in ready THEN k
        ELSE WaveFrom(fs, placed \cup ready, k + 1, i)

WaveOf(fs, f) ==
    IF \E i \in 1..Len(fs) : fs[i] = f
    THEN WaveFrom(fs, {}, 1, CHOOSE i \in 1..Len(fs) : fs[i] = f)
    ELSE 0

\* the priority as ordering reads it: the number, 99 when there is none
EffectivePriority(f) == IF f.priority.kind = "int" THEN f.priority.val ELSE DefaultPriority

\* the example of the claim: A without dependencies and priority 10, B with
\* priority 1 depending on A
ExampleAB ==
    MakeFeatures(2, <<PInt(10), PInt(1)>>, <<"api", "api">>, <<FALSE, FALSE>>,
                 <<FALSE, FALSE>>, <<FALSE, FALSE>>, << <<>>, <<IdList[1]>> >>)

\* C30: the order is built in waves: an item of wave k stands before every
\* item of wave k + 1, the items of one wave stand in ascending priority,
\* and priority never moves an item ahead of an item of an earlier wave.
\* For A (no dependencies, priority 10) and B (depends on A, priority 1)
\* the order is [A, B], and while A is unfinished selection returns A.
C30_OrderBuiltInWaves ==
    /\ (op = "topological_sort_features" /\ sorted_ret.ok)
           => /\ \A p, q \in 1..Len(sorted_ret.val) :
                    LET wp == WaveOf(features, sorted_ret.val[p])
                        wq == WaveOf(features, sorted_ret.val[q])
                    IN  (p < q /\ wp > 0 /\ wq > 0)
                            => /\ wp <= wq
                               /\ wp = wq => EffectivePriority(sorted_ret.val[p])
                                                 <= EffectivePriority(sorted_ret.val[q])
              /\ features = ExampleAB => sorted_ret.val = ExampleAB
    /\ op = "get_next_feature"
           => /\ next_ret # None => WaveOf(features, next_ret) = 1
              /\ features = ExampleAB => next_ret = ExampleAB[1]

\* an order was computed in which the item of priority 1 stands behind the
\* two items of the first wave, priorities 10 and 99, on which it depends
C30_Witness ==
    /\ op = "topological_sort_features"
    /\ sorted_ret.ok
    /\ Len(sorted_ret.val) = 3
    /\ EffectivePriority(sorted_ret.val[1]) = 10
    /\ EffectivePriority(sorted_ret.val[2]) = DefaultPriority
    /\ EffectivePriority(sorted_ret.val[3]) = 1
    /\ WaveOf(features, sorted_ret.val[2]) = 1
    /\ WaveOf(features, sorted_ret.val[3]) = 2
    /\ sorted_ret.val[1] = features[3]

\* ------------------------------------------------------------------------
\* Claims: cycle paths, priorities, fallback order, store flags
\* ------------------------------------------------------------------------

\* x declares y as a dependency
Declares(fs, x, y) ==
    \E i \in 1..Len(fs) :
        fs[i].id = x /\ \E k \in 1..Len(fs[i].dependencies) : fs[i].dependencies[k] = y

\* a collection of n items without priorities and flags, with the given
\* dependency lists
Plain(n, deps) ==
    MakeFeatures(n, [i \in 1..n |-> PAbsent], [i \in 1..n |-> "api"],
                 [i \in 1..n |-> FALSE], [i \in 1..n |-> FALSE],
                 [i \in 1..n |-> FALSE], deps)

\* C31: a reported cycle starts and ends with the same id, each consecutive
\* pair (x, y) of it satisfies "x declares y as a dependency", and it is the
\* traversal's path from the first occurrence of the repeated id to its
\* repetition, so no other id occurs twice; a self-dependency of A gives
\* [A, A] and mutual dependencies of A and B give [A, B, A].
C31_CyclePathIsClosedWalk ==
    op = "detect_circular_dependencies"
        => /\ cycle_ret # <<>>
                  => /\ Len(cycle_ret) >= 2
                     /\ cycle_ret[1] = cycle_ret[Len(cycle_ret)]
                     /\ \A k \in 1..(Len(cycle_ret) - 1) :
                            Declares(features, cycle_ret[k], cycle_ret[k + 1])
                     /\ \A i, j \in 1..(Len(cycle_ret) - 1) :
                            i # j => cycle_ret[i] # cycle_ret[j]
           /\ features = Plain(1, << <<IdList[1]>> >>)
                  => cycle_ret = <<IdList[1], IdList[1]>>
           /\ features = Plain(2, << <<IdList[2]>>, <<IdList[1]>> >>)
                  => cycle_ret = <<IdList[1], IdList[2], IdList[1]>>

\* a cycle was reported that the traversal entered from an item outside it:
\* the first item depends on the second, the second and third on each other
C31_Witness ==
    /\ op = "detect_circular_dependencies"
    /\ Len(features) = 3
    /\ features[1].dependencies = <<IdList[2]>>
    /\ features[2].dependencies = <<IdList[3]>>
    /\ features[3].dependencies = <<IdList[2]>>
    /\ cycle_ret = <<IdList[2], IdList[3], IdList[2]>>

\* the completed count the store would show after a reconciliation with
\* the current ledger
ReconciledCompleted ==
    get_feature_status(~malformed,
        sync_features_with_git(~malformed, features, ledger, git_fail).features).completed

\* C32: in each iteration of loop-runner.py the store is reconciled with the
\* ledger after the test run and before progress is evaluated: when the
\* reconciled store shows more completed items than the iteration started
\* with, the completion being recorded in the ledger only, the evaluation
\* takes the iteration for one that completed an item.
C32_ProgressSeesLedgerCompletions ==
    [][(program = "loop-runner" /\ pc = "verify" /\ ~malformed
           /\ ReconciledCompleted > status.completed)
          => branch' = "completed"]_vars

\* the collection with every absent or non-numeric priority replaced by the
\* number 99
WithDefaultPriorities(fs) ==
    [i \in 1..Len(fs) |-> [fs[i] EXCEPT !.priority = PInt(EffectivePriority(fs[i]))]]

\* the ids of a list of items, in its order
IdsInOrder(order) == [i \in 1..Len(order) |-> order[i].id]

\* C33: ordering and selection treat an absent or non-numeric priority as
\* 99: topological_sort_features and get_next_feature do not fail and return
\* what they return for the collection with those priorities set to 99.
C33_NonNumericPriorityIsDefault ==
    /\ op = "topological_sort_features"
           => /\ sorted_ret.ok
              /\ IdsInOrder(sorted_ret.val) =
                     IdsInOrder(topological_sort_features(WithDefaultPriorities(features)).val)
    /\ op = "get_next_feature"
           => next_ret.id =
                  get_next_feature(~malformed, WithDefaultPriorities(features), skip_arg).id

\* the items no wave takes, in collection order
NeverPlaced(fs) == SelectSeq(fs, LAMBDA f : WaveOf(fs, f) = 0)

\* the order holds every item of the collection once: first the items the
\* waves placed, then the others in collection order
PlacedThenRest(fs, order) ==
    LET rest == NeverPlaced(fs)
        n == Len(order) - Len(rest)
    IN  /\ Len(order) = Len(fs)
        /\ \A i \in 1..Len(fs) : \E p \in 1..Len(order) : order[p] = fs[i]
        /\ n >= 0
        /\ \A p \in 1..n : WaveOf(fs, order[p]) > 0
        /\ SubSeq(order, n + 1, Len(order)) = rest

\* C34: when the dependency relation has a cycle, topological_sort_features
\* still returns every item exactly once: the items placed by the waves
\* first, then all the items never placed, in collection order.
C34_CycleItemsAppended ==
    (op = "topological_sort_features" /\ HasCycle(features))
        => /\ sorted_ret.ok
           /\ PlacedThenRest(features, sorted_ret.val)

\* the same for the collections whose order is computed
CycleItemsAppendedWhenComputed ==
    (op = "topological_sort_features" /\ HasCycle(features) /\ sorted_ret.ok)
        => PlacedThenRest(features, sorted_ret.val)

\* no item is both passed and blocked
FlagsExclusive(fs) == \A i \in 1..Len(fs) : ~(fs[i].passes /\ fs[i].blocked)

\* C35: from a store in which no item is both passed and blocked, no
\* operation of the engine (reconciliation, auto-completion, mark-blocked,
\* unblock) produces an item that is both passed and blocked.
C35_PassedAndBlockedExclusive ==
    [][FlagsExclusive(features) => FlagsExclusive(features')]_vars

\* C36: store updates are unprotected whole-file read-modify-write: an
\* operation that writes replaces the file with the document it loaded and
\* changed, whatever the file holds by then, so that of two operations that
\* loaded the same content the later write discards the earlier one's change.
C36_WriteReplacesWithOwnCopy ==
    [][\A o \in Operations :
          (stage[o] = "loaded" /\ stage'[o] = "written"
              /\ opens_for_writing(job[o], snapshot[o]))
              => features' = modified(job[o], snapshot[o])]_vars

\* a lost update: both operations loaded the same content and have written;
\* the store is what the second wrote, and an item the first had changed
\* (unblocked, or marked passed) is as it was before
C36_Witness ==
    \E o, later \in Operations :
        /\ o # later
        /\ stage[o] = "written" /\ stage[later] = "written"
        /\ snapshot[o] = snapshot[later]
        /\ opens_for_writing(job[o], snapshot[o])
        /\ opens_for_writing(job[later], snapshot[later])
        /\ features = modified(job[later], snapshot[later])
        /\ \E i \in 1..Len(features) :
               /\ modified(job[o], snapshot[o])[i] # snapshot[o][i]
               /\ features[i] = snapshot[o][i]

\* a store that passed validation without warnings about the order: unique
\* ids, no dependency cycle, every priority a number
ValidStore(fs) ==
    /\ UniqueIds(fs)
    /\ ~HasCycle(fs)
    /\ \A i \in 1..Len(fs) : fs[i].priority.kind = "int"

\* C37: on every valid store (unique ids, acyclic dependencies, numeric
\* priorities) get_next_feature of orchestrator.py returns the item that
\* get_next_feature of loop-runner.py returns with skip_needs_review =
\* false, and none in the same states.
C37_SelectionsAgree ==
    (op = "orchestrator_get_next_feature" /\ ValidStore(features))
        => /\ orchestrator_next_ret.ok
           /\ orchestrator_next_ret.val = get_next_feature(~malformed, features, FALSE)

\* the item with id x is unfinished and not blocked in fs, and each of its
\* declared dependencies is the id of a passed item of fs
ReadyForCompletion(fs, x) ==
    \E i \in 1..Len(fs) :
        /\ fs[i].id = x
        /\ ~fs[i].blocked
        /\ \A k \in 1..Len(fs[i].dependencies) :
               \E j \in 1..Len(fs) : fs[j].passes /\ fs[j].id = fs[i].dependencies[k]

\* C38: whenever the auto-completion sets passes on an item, that item is
\* at that moment not blocked and every dependency it declares is the id of
\* a passed item; an item with an unfinished dependency is never marked.
C38_AutoCompletionRespectsDependencies ==
    [][(program = "loop-runner" /\ pc = "verify" /\ branch' = "auto_completed")
          => /\ ReadyForCompletion(features, auto_completed')
             /\ \A i \in 1..Len(features) :
                    features'[i].passes /\ ~features[i].passes
                        => features[i].id = auto_completed']_vars

\* the auto-completion marked the item that depends on f1, which had passed
\* before and is not blocked
C38_Witness ==
    /\ branch = "auto_completed"
    /\ auto_completed = IdList[2]
    /\ features[2].dependencies = <<IdList[1]>>
    /\ features[2].passes
    /\ features[1].passes /\ ~features[1].blocked

\* f declares a dependency on an id that no item of the collection has
HasDangling(fs, f) ==
    \E k \in 1..Len(f.dependencies) : f.dependencies[k] \notin IdsOf(fs)

\* the collection with the dangling dependencies taken out of the lists
WithoutDangling(fs) ==
    [i \in 1..Len(fs) |->
        [fs[i] EXCEPT !.dependencies = SelectSeq(@, LAMBDA d : d \in IdsOf(fs))]]

\* C39: an unfinished item with a dependency on an id that is not in the
\* collection is placed in the computed order as if it did not declare that
\* dependency, and get_next_feature returns it in no store state; so the
\* loop, which dispatches and auto-completes what get_next_feature returns,
\* never dispatches or auto-completes it.
C39_DanglingDependencyNeverSelected ==
    /\ op = "topological_sort_features"
           => LET without == topological_sort_features(WithoutDangling(features))
              IN  /\ sorted_ret.ok = without.ok
                  /\ IdsInOrder(sorted_ret.val) = IdsInOrder(without.val)
    /\ op = "get_next_feature" => ~HasDangling(features, next_ret)

\* a selection passed over the first item of the order, unfinished, not
\* blocked and with a dangling dependency only, and returned the second
C39_Witness ==
    /\ op = "get_next_feature"
    /\ Len(features) >= 2
    /\ ~features[1].passes /\ ~features[1].blocked /\ ~features[1].needs_review
    /\ features[1].dependencies # <<>>
    /\ HasDangling(features, features[1])
    /\ topological_sort_features(features).val[1] = features[1]
    /\ next_ret = features[2]

\* the loop's side of C39: what the loops dispatch and what loop-runner.py
\* auto-completes declares no dangling dependency at that moment
DanglingNeverDispatched ==
    [][/\ (pc = "dispatch" /\ dispatched' # <<>>)
             => \A i \in 1..Len(features) :
                    features[i].id = dispatched' => ~HasDangling(features, features[i])
       /\ (pc = "verify" /\ branch' = "auto_completed")
             => \A i \in 1..Len(features) :
                    features[i].id = auto_completed' => ~HasDangling(features, features[i])]_vars

\* loop-runner.py is started in non-interactive mode with an empty history
\* on a store that validation accepts, whose items are all unfinished, not
\* blocked, not awaiting review and without dangling dependencies
FreshValidStore ==
    /\ pc = "start"
    /\ ledger = {}
    /\ ~malformed
    /\ validate_feature_list(document.exists, document.json_ok, document.items).valid
    /\ Len(features) > 0
    /\ \A i \in 1..Len(features) :
           /\ ~features[i].passes /\ ~features[i].blocked /\ ~features[i].needs_review
           /\ ~HasDangling(features, features[i])

\* the executor is cooperative: when it returns, the store is readable, the
\* dispatched item is passed in it, and the status shows one more completed
\* item, the same total and nothing blocked
Cooperative ==
    (program = "loop-runner" /\ pc = "verify")
        => /\ ~malformed
           /\ \E i \in 1..Len(features) : features[i].id = dispatched /\ features[i].passes
           /\ new_status.completed = status.completed + 1
           /\ new_status.total = status.total
           /\ new_status.blocked = 0

\* the loop has ended with all items passed after one dispatch per item
SucceededAfterOneDispatchEach ==
    /\ pc = "all_completed"
    /\ dispatches = Len(features)
    /\ \A i \in 1..Len(features) : features[i].passes

\* C40: with a cooperative executor, on a valid store of N unfinished items
\* without blocked or review-gated ones and with max_sessions > N, the
\* non-interactive loop eventually reaches the success terminal after
\* exactly N dispatches.
C40_CooperativeRunSucceeds ==
    (FreshValidStore /\ ~interactive /\ []Cooperative) => <>SucceededAfterOneDispatchEach

\* the same run in interactive mode, with an executor that changes the store
\* and commits nothing
CooperativeRunSucceedsInteractive ==
    (FreshValidStore /\ interactive /\ []Cooperative /\ [](ledger = {}))
        => <>SucceededAfterOneDispatchEach

====
